---- MODULE Spec2Model ----
(***************************************************************************)
(* Model of the bbff-brewco photo site's serverless handlers:              *)
(*   images/[key]  GET (cache, object store, image transform, cache put)   *)
(*   upload        POST (rate limit, auth, validation, object-store puts)  *)
(* Strings whose characters matter (keys, query values, cache keys) are    *)
(* sequences of one-character strings.                                     *)
(***************************************************************************)
EXTENDS Integers, Sequences, FiniteSets, TLC

(***************************************************************************)
(* Strings                                                                 *)
(***************************************************************************)
EVENT_PREFIX == <<"2","5","t","h","A","n","n","i","v","e","r","s","a","r","y">>

SLASH == <<"/">>

AUTO == <<"a","u","t","o">>

StartsWith(s, p) ==
  /\ Len(s) >= Len(p)
  /\ \A i \in 1..Len(p) : s[i] = p[i]

DigitChars == {"0","1","2","3","4","5","6","7","8","9"}

WordChars ==
  DigitChars \cup {"_"} \cup
  {"a","b","c","d","e","f","g","h","i","j","k","l","m",
   "n","o","p","q","r","s","t","u","v","w","x","y","z"} \cup
  {"A","B","C","D","E","F","G","H","I","J","K","L","M",
   "N","O","P","Q","R","S","T","U","V","W","X","Y","Z"}

DigitVal(c) ==
  CASE c = "0" -> 0 [] c = "1" -> 1 [] c = "2" -> 2 [] c = "3" -> 3
    [] c = "4" -> 4 [] c = "5" -> 5 [] c = "6" -> 6 [] c = "7" -> 7
    [] c = "8" -> 8 [] c = "9" -> 9

DigitChar(d) ==
  CASE d = 0 -> "0" [] d = 1 -> "1" [] d = 2 -> "2" [] d = 3 -> "3"
    [] d = 4 -> "4" [] d = 5 -> "5" [] d = 6 -> "6" [] d = 7 -> "7"
    [] d = 8 -> "8" [] d = 9 -> "9"

RECURSIVE NatToStr(_)
NatToStr(n) ==
  IF n < 10 THEN <<DigitChar(n)>>
  ELSE NatToStr(n \div 10) \o <<DigitChar(n % 10)>>

(* String(n) of a JavaScript number that holds an integer *)
NumToStr(n) == IF n < 0 THEN <<"-">> \o NatToStr(0 - n) ELSE NatToStr(n)

RECURSIVE Join(_, _)
Join(parts, sep) ==
  IF Len(parts) = 0 THEN <<>>
  ELSE IF Len(parts) = 1 THEN parts[1]
  ELSE parts[1] \o sep \o Join(Tail(parts), sep)

(***************************************************************************)
(* JavaScript numbers as the handler sees them: undefined, NaN or integer  *)
(***************************************************************************)
UNSET == [set |-> FALSE, nan |-> FALSE, v |-> 0]

NAN == [set |-> TRUE, nan |-> TRUE, v |-> 0]

Num(n) == [set |-> TRUE, nan |-> FALSE, v |-> n]

(* a query parameter that URLSearchParams.get returns null for *)
ABSENT == [present |-> FALSE, s |-> <<>>]

Param(s) == [present |-> TRUE, s |-> s]

(* JavaScript truthiness of a string-or-null and of a number-or-undefined *)
TruthyParam(p) == p.present /\ Len(p.s) > 0

TruthyNum(x) == x.set /\ ~x.nan /\ x.v # 0

(* the leading run of decimal digits of s from position i, as a number *)
RECURSIVE ParseDigits(_, _, _)
ParseDigits(s, i, acc) ==
  IF i > Len(s) \/ s[i] \notin DigitChars THEN acc
  ELSE ParseDigits(s, i + 1, acc * 10 + DigitVal(s[i]))

RECURSIVE SkipSpaces(_, _)
SkipSpaces(s, i) ==
  IF i <= Len(s) /\ s[i] = " " THEN SkipSpaces(s, i + 1) ELSE i

(* parseInt(s): leading blanks, an optional sign, then decimal digits;    *)
(* NaN when no digit follows                                               *)
parseInt(s) ==
  LET i == SkipSpaces(s, 1)
      neg == i <= Len(s) /\ s[i] = "-"
      j == IF i <= Len(s) /\ s[i] \in {"-", "+"} THEN i + 1 ELSE i
  IN IF j > Len(s) \/ s[j] \notin DigitChars THEN NAN
     ELSE IF neg THEN Num(0 - ParseDigits(s, j, 0))
     ELSE Num(ParseDigits(s, j, 0))

(***************************************************************************)
(* Image Processing Adapter: pure helpers                                  *)
(***************************************************************************)
FormatStr(f) ==
  IF f = "webp" THEN <<"w","e","b","p">> ELSE <<"j","p","e","g">>

(* the Accept header values of the model that contain "image/webp" *)
AcceptIncludesWebp(accept) == accept \in {"image/webp,image/jpeg", "image/webp"}

getOptimalFormat(accept) == IF AcceptIncludesWebp(accept) THEN "webp" ELSE "jpeg"

(* x < n and x > n of JavaScript: false whenever x is NaN *)
JsLt(x, n) == ~x.nan /\ x.v < n

JsGt(x, n) == ~x.nan /\ x.v > n

MinDimension == 1

MaxDimension == 4000

MinQuality == 1

MaxQuality == 100

DefaultQuality == 90

(* validateProcessingOptions with the height check left out *)
validateProcessingOptions_NoHeight(options) ==
  IF options.width.set /\ (JsLt(options.width, MinDimension) \/ JsGt(options.width, MaxDimension))
    THEN [valid |-> FALSE, error |-> "Width must be between 1 and 4000 pixels"]
  ELSE IF options.quality.set /\ (JsLt(options.quality, MinQuality) \/ JsGt(options.quality, MaxQuality))
    THEN [valid |-> FALSE, error |-> "Quality must be between 1 and 100"]
  ELSE [valid |-> TRUE, error |-> "none"]

validateProcessingOptions(options) ==
  IF options.width.set /\ (JsLt(options.width, MinDimension) \/ JsGt(options.width, MaxDimension))
    THEN [valid |-> FALSE, error |-> "Width must be between 1 and 4000 pixels"]
  ELSE IF options.height.set /\ (JsLt(options.height, MinDimension) \/ JsGt(options.height, MaxDimension))
    THEN [valid |-> FALSE, error |-> "Height must be between 1 and 4000 pixels"]
  ELSE IF options.quality.set /\ (JsLt(options.quality, MinQuality) \/ JsGt(options.quality, MaxQuality))
    THEN [valid |-> FALSE, error |-> "Quality must be between 1 and 100"]
  ELSE IF options.format \notin {"jpeg", "png", "webp"}
    THEN [valid |-> FALSE, error |-> "Format must be jpeg, png, or webp"]
  ELSE [valid |-> TRUE, error |-> "none"]

(* x || 'auto' for a number x *)
NumOrAuto(x) == IF TruthyNum(x) THEN NumToStr(x.v) ELSE AUTO

WmStr(watermark) ==
  IF watermark THEN <<"w","m">> ELSE <<"n","o","-","w","m">>

(* createCacheKey of the Image Processing Adapter (utils/image-processing) *)
AdapterCreateCacheKey(imageKey, options) ==
  Join(<< imageKey,
          NumOrAuto(options.width),
          NumOrAuto(options.height),
          NumOrAuto(options.quality),
          FormatStr(options.format),
          WmStr(options.watermark) >>, <<"_">>)

(***************************************************************************)
(* Image Serving Handler: pure helpers                                     *)
(***************************************************************************)
(* imageKey.replace(/[^\w.-]/g, '_') *)
SanitizeCacheKey(s) ==
  [i \in 1..Len(s) |-> IF s[i] \in WordChars \cup {".", "-"} THEN s[i] ELSE "_"]

(* createCacheKey of functions/api/images/[key] *)
createCacheKey(imageKey, options) ==
  Join(<< SanitizeCacheKey(imageKey),
          NumOrAuto(options.width),
          NumOrAuto(options.height),
          NumOrAuto(options.quality),
          FormatStr(options.format),
          WmStr(options.watermark) >>, <<"_">>)

(* key resolution that prepends the prefix without looking at the key *)
ResolveKey_AlwaysPrefix(imageKey) == EVENT_PREFIX \o SLASH \o imageKey

(* fullKey = imageKey.startsWith(EVENT_PREFIX) ? imageKey : prefix/imageKey *)
ResolveKey(imageKey) ==
  IF StartsWith(imageKey, EVENT_PREFIX) THEN imageKey
  ELSE EVENT_PREFIX \o SLASH \o imageKey

FALSE_STR == <<"f","a","l","s","e">>

(* the option parsing of onRequestGet, query string to ImageProcessingOptions *)
ParseOptions(in) ==
  [ width     |-> IF TruthyParam(in.w) THEN parseInt(in.w.s) ELSE UNSET,
    height    |-> IF TruthyParam(in.h) THEN parseInt(in.h.s) ELSE UNSET,
    quality   |-> IF TruthyParam(in.q) THEN parseInt(in.q.s) ELSE Num(DefaultQuality),
    format    |-> getOptimalFormat(in.accept),
    watermark |-> ~(in.watermark.present /\ in.watermark.s = FALSE_STR) ]

(***************************************************************************)
(* State                                                                   *)
(***************************************************************************)
VARIABLES
  env,        \* bindings of the deployment: PHOTOS_BUCKET, IMAGES, BRANDING_ASSETS
  bucket,     \* object store: storage key -> object
  cache,      \* edge cache: cache key -> cached response
  pc,         \* position of each image-serving GET invocation
  req,        \* request each invocation received
  ctx,        \* fullKey, processingOptions, cacheKey computed by the invocation
  resp,       \* response returned to the client
  calls,      \* calls the invocation made to its collaborators
  put,        \* state of the cache.put handed to waitUntil
  head,       \* the last image HEAD invocation: key, storage key, response, probes
  uenv,       \* upload configuration: ENVIRONMENT, UPLOAD_RATE_LIMIT, MAX_UPLOAD_SIZE
  uploadCounts, \* module-level rate-limit map: client IP -> {count, resetTime}
  now,        \* Date.now()
  up,         \* the upload invocations
  lst,        \* the last listing invocation: list call made, response
  opt,        \* the optimizeForWeb call: quality, requests made, last result
  route,      \* the last request routed to an endpoint: handler, response
  gallery     \* the gallery page: photos shown, currentSort, hasMore, cursor

serveVars == <<cache, pc, req, ctx, resp, calls, put>>

uploadVars == <<uenv, uploadCounts, now, up>>

(* the concurrent invocations of onRequestGet *)
Requests == {"r1", "r2"}

(***************************************************************************)
(* Requests of the model                                                   *)
(***************************************************************************)
KEY_A == <<"a",".","j","p","g">>

KEY_MISSING == <<"z",".","j","p","g">>

KEY_A_FULL == EVENT_PREFIX \o SLASH \o KEY_A

Query(w, h, q, watermark, accept) ==
  [w |-> w, h |-> h, q |-> q, watermark |-> watermark, accept |-> accept]

DefaultQuery == Query(ABSENT, ABSENT, ABSENT, ABSENT, "image/webp,image/jpeg")

OnlyW(s) == Query(Param(s), ABSENT, ABSENT, ABSENT, "absent")

OnlyH(s) == Query(ABSENT, Param(s), ABSENT, ABSENT, "absent")

OnlyQ(s) == Query(ABSENT, ABSENT, Param(s), ABSENT, "absent")

Queries ==
  { DefaultQuery,
    Query(Param(<<"8","0","0">>), Param(<<"6","0","0">>), Param(<<"8","5">>),
          Param(FALSE_STR), "image/jpeg"),
    Query(Param(<<"4","0","0","0">>), Param(<<"1">>), Param(<<"1","0","0">>),
          Param(<<"t","r","u","e">>), "absent"),
    Query(Param(<<>>), ABSENT, Param(<<>>), ABSENT, "image/webp,image/jpeg"),
    OnlyW(<<"5","0","0","0">>),
    OnlyW(<<"0">>),
    OnlyW(<<"-","5">>),
    OnlyW(<<"a","b","c">>),
    OnlyW(<<"1","2","p","x">>),
    OnlyH(<<"4","0","0","1">>),
    OnlyH(<<"a","b","c">>),
    OnlyQ(<<"0">>),
    OnlyQ(<<"1","0","1">>),
    OnlyQ(<<"a","b","c">>) }

Request(method, key, query) == [method |-> method, key |-> key, query |-> query]

ServeInputs ==
  { Request("GET", KEY_A, qy) : qy \in Queries } \cup
  { Request("GET", KEY_A_FULL, DefaultQuery),
    Request("GET", KEY_MISSING, DefaultQuery),
    Request("GET", <<>>, DefaultQuery),
    Request("GET", <<>>, OnlyW(<<"5","0","0","0">>)),
    Request("OPTIONS", KEY_A, DefaultQuery) }

NoRequest == Request("none", <<>>, DefaultQuery)

NoResponse ==
  [status |-> 0, code |-> "none", message |-> "none", filename |-> <<>>,
   xcache |-> "none", body |-> [none |-> TRUE]]

NoBody == [none |-> TRUE]

NoCalls == [match |-> 0, get |-> 0, kv |-> <<>>, transform |-> 0, put |-> 0]

(***************************************************************************)
(* Error Taxonomy                                                          *)
(***************************************************************************)
createErrorResponse(message, code, status) ==
  [status |-> status, code |-> code, message |-> message, filename |-> <<>>,
   xcache |-> "none", body |-> NoBody]

createNotFoundError(filename) ==
  [status |-> 404, code |-> "FILE_NOT_FOUND",
   message |-> IF Len(filename) > 0 THEN "File '<filename>' not found"
               ELSE "Requested resource not found",
   filename |-> filename, xcache |-> "none", body |-> NoBody]

(* handleCORS: a 204 preflight response for OPTIONS, null otherwise *)
IsPreflight(method) == method = "OPTIONS"

CorsResponse ==
  [status |-> 204, code |-> "none", message |-> "none", filename |-> <<>>,
   xcache |-> "none", body |-> NoBody]

ImageResponse(xcache, body) ==
  [status |-> 200, code |-> "none", message |-> "none", filename |-> <<>>,
   xcache |-> xcache, body |-> body]

(***************************************************************************)
(* Image Processing Adapter: processImage and applyWatermarks              *)
(***************************************************************************)
BBFF_LOGO == "bbff-logo.png"

HMB_LOGO == "hmb-logo.png"

(* what the collaborators answer during one processImage call *)
ProcessOutcomes ==
  [ kv1 : {"found", "missing", "throw"}, draw1 : {"ok", "throw"},
    kv2 : {"found", "missing", "throw"}, draw2 : {"ok", "throw"},
    xform : {"ok", "notok", "throw"} ]

(* a watermark step that gives up at the first asset it does not find *)
applyWatermarks_StopsAtMissing(o) ==
  LET first == <<[asset |-> BBFF_LOGO, anchor |-> "top-left"]>>
      second == <<[asset |-> HMB_LOGO, anchor |-> "bottom-right"]>>
  IN IF o.kv1 # "found" THEN [kv |-> <<BBFF_LOGO>>, wm |-> <<>>]
     ELSE IF o.draw1 = "throw" THEN [kv |-> <<BBFF_LOGO>>, wm |-> <<>>]
     ELSE IF o.kv2 # "found" THEN [kv |-> <<BBFF_LOGO, HMB_LOGO>>, wm |-> first]
     ELSE IF o.draw2 = "throw" THEN [kv |-> <<BBFF_LOGO, HMB_LOGO>>, wm |-> first]
     ELSE [kv |-> <<BBFF_LOGO, HMB_LOGO>>, wm |-> first \o second]

(* applyWatermarks: the lookups made and the overlays composited; the      *)
(* catch block returns the processor reached before the failure            *)
applyWatermarks(o) ==
  LET first == <<[asset |-> BBFF_LOGO, anchor |-> "top-left"]>>
      second == <<[asset |-> HMB_LOGO, anchor |-> "bottom-right"]>>
  IN IF o.kv1 = "throw" THEN [kv |-> <<BBFF_LOGO>>, wm |-> <<>>]
     ELSE IF o.kv1 = "found" /\ o.draw1 = "throw" THEN [kv |-> <<BBFF_LOGO>>, wm |-> <<>>]
     ELSE LET wm1 == IF o.kv1 = "found" THEN first ELSE <<>>
          IN IF o.kv2 = "throw" THEN [kv |-> <<BBFF_LOGO, HMB_LOGO>>, wm |-> wm1]
             ELSE IF o.kv2 = "found" /\ o.draw2 = "throw"
               THEN [kv |-> <<BBFF_LOGO, HMB_LOGO>>, wm |-> wm1]
             ELSE [kv |-> <<BBFF_LOGO, HMB_LOGO>>,
                   wm |-> IF o.kv2 = "found" THEN wm1 \o second ELSE wm1]

(* the image the transform service is asked for: falsy options are omitted *)
TransformRequest(src, options, wm) ==
  [ src     |-> src,
    width   |-> IF TruthyNum(options.width) THEN options.width.v ELSE 0,
    height  |-> IF TruthyNum(options.height) THEN options.height.v ELSE 0,
    quality |-> IF TruthyNum(options.quality) THEN options.quality.v ELSE 0,
    format  |-> options.format,
    wm      |-> wm ]

(* a processImage whose watermark step has no catch block: a failed lookup *)
(* or overlay rejects the whole call                                       *)
processImage_WatermarkFailureAborts(src, options, e, o) ==
  IF ~e.images
    THEN [threw |-> TRUE, ok |-> FALSE, body |-> NoBody, kv |-> <<>>, transform |-> 0]
  ELSE
    LET marks == IF options.watermark /\ e.branding THEN applyWatermarks(o)
                 ELSE [kv |-> <<>>, wm |-> <<>>]
        failed == /\ options.watermark /\ e.branding
                  /\ \/ o.kv1 = "throw"
                     \/ o.kv1 = "found" /\ o.draw1 = "throw"
                     \/ o.kv2 = "throw"
                     \/ o.kv2 = "found" /\ o.draw2 = "throw"
    IN IF failed
         THEN [threw |-> TRUE, ok |-> FALSE, body |-> NoBody,
               kv |-> marks.kv, transform |-> 0]
       ELSE IF o.xform = "throw"
         THEN [threw |-> TRUE, ok |-> FALSE, body |-> NoBody,
               kv |-> marks.kv, transform |-> 1]
       ELSE IF o.xform = "notok"
         THEN [threw |-> FALSE, ok |-> FALSE, body |-> NoBody,
               kv |-> marks.kv, transform |-> 1]
       ELSE [threw |-> FALSE, ok |-> TRUE,
             body |-> TransformRequest(src, options, marks.wm),
             kv |-> marks.kv, transform |-> 1]

(* processImage: threw = the call rejected; otherwise the transform        *)
(* service's response with its ok flag                                     *)
processImage(src, options, e, o) ==
  IF ~e.images
    THEN [threw |-> TRUE, ok |-> FALSE, body |-> NoBody, kv |-> <<>>, transform |-> 0]
  ELSE
    LET marks == IF options.watermark /\ e.branding THEN applyWatermarks(o)
                 ELSE [kv |-> <<>>, wm |-> <<>>]
    IN IF o.xform = "throw"
         THEN [threw |-> TRUE, ok |-> FALSE, body |-> NoBody,
               kv |-> marks.kv, transform |-> 1]
       ELSE IF o.xform = "notok"
         THEN [threw |-> FALSE, ok |-> FALSE, body |-> NoBody,
               kv |-> marks.kv, transform |-> 1]
       ELSE [threw |-> FALSE, ok |-> TRUE,
             body |-> TransformRequest(src, options, marks.wm),
             kv |-> marks.kv, transform |-> 1]

NoContext ==
  [resolved |-> FALSE, fullKey |-> <<>>, options |-> ParseOptions(DefaultQuery),
   cacheKey |-> <<>>]

(***************************************************************************)
(* Image Serving Handler: onRequestGet                                     *)
(***************************************************************************)
Respond(r, response) ==
  /\ resp' = [resp EXCEPT ![r] = response]
  /\ pc' = [pc EXCEPT ![r] = "done"]

(* from entry up to the cache.match call: CORS, capability check, key      *)
(* resolution, option parsing and validation, cache key                    *)
GetStart(r, in) ==
  /\ pc[r] = "idle"
  /\ req' = [req EXCEPT ![r] = in]
  /\ LET options == ParseOptions(in.query)
         validation == validateProcessingOptions(options)
         fullKey == ResolveKey(in.key)
     IN IF IsPreflight(in.method)
          THEN Respond(r, CorsResponse) /\ UNCHANGED ctx
        ELSE IF ~env.bucket
          THEN /\ Respond(r, createErrorResponse("Storage not configured",
                                                  "STORAGE_ERROR", 503))
               /\ UNCHANGED ctx
        ELSE IF Len(in.key) = 0
          THEN Respond(r, createNotFoundError(<<>>)) /\ UNCHANGED ctx
        ELSE IF ~validation.valid
          THEN /\ Respond(r, createErrorResponse(validation.error,
                                                  "VALIDATION_FAILED", 400))
               /\ UNCHANGED ctx
        ELSE /\ ctx' = [ctx EXCEPT ![r] =
                          [resolved |-> TRUE, fullKey |-> fullKey, options |-> options,
                           cacheKey |-> createCacheKey(fullKey, options)]]
             /\ pc' = [pc EXCEPT ![r] = "match"]
             /\ UNCHANGED resp
  /\ UNCHANGED <<gallery, route, lst, opt, env, bucket, cache, calls, put, head, uploadVars>>

(* a handler that never looks at what cache.match answered *)
CacheMatch_SkipsCache(r) ==
  /\ pc[r] = "match"
  /\ calls' = [calls EXCEPT ![r].match = @ + 1]
  /\ pc' = [pc EXCEPT ![r] = "fetch"]
  /\ UNCHANGED <<gallery, route, lst, opt, env, bucket, cache, req, ctx, resp, put, head, uploadVars>>

(* a handler that revalidates a hit against the object store *)
CacheMatch_RefetchesOnHit(r) ==
  /\ pc[r] = "match"
  /\ IF ctx[r].cacheKey \in DOMAIN cache
       THEN /\ Respond(r, ImageResponse("HIT", cache[ctx[r].cacheKey].body))
            /\ calls' = [calls EXCEPT ![r].match = @ + 1, ![r].get = @ + 1]
       ELSE /\ pc' = [pc EXCEPT ![r] = "fetch"]
            /\ calls' = [calls EXCEPT ![r].match = @ + 1]
            /\ UNCHANGED resp
  /\ UNCHANGED <<gallery, route, lst, opt, env, bucket, cache, req, ctx, put, head, uploadVars>>

(* cache.match answers: a hit is returned at once *)
CacheMatch(r) ==
  /\ pc[r] = "match"
  /\ calls' = [calls EXCEPT ![r].match = @ + 1]
  /\ IF ctx[r].cacheKey \in DOMAIN cache
       THEN Respond(r, ImageResponse("HIT", cache[ctx[r].cacheKey].body))
       ELSE pc' = [pc EXCEPT ![r] = "fetch"] /\ UNCHANGED resp
  /\ UNCHANGED <<gallery, route, lst, opt, env, bucket, cache, req, ctx, put, head, uploadVars>>

(* a handler that reports the storage key instead of the requested name *)
FetchOriginal_ReportsFullKey(r) ==
  /\ pc[r] = "fetch"
  /\ calls' = [calls EXCEPT ![r].get = @ + 1]
  /\ IF ctx[r].fullKey \in DOMAIN bucket
       THEN pc' = [pc EXCEPT ![r] = "process"] /\ UNCHANGED resp
       ELSE Respond(r, createNotFoundError(ctx[r].fullKey))
  /\ UNCHANGED <<gallery, route, lst, opt, env, bucket, cache, req, ctx, put, head, uploadVars>>

(* PHOTOS_BUCKET.get answers *)
FetchOriginal(r) ==
  /\ pc[r] = "fetch"
  /\ calls' = [calls EXCEPT ![r].get = @ + 1]
  /\ IF ctx[r].fullKey \in DOMAIN bucket
       THEN pc' = [pc EXCEPT ![r] = "process"] /\ UNCHANGED resp
       ELSE Respond(r, createNotFoundError(req[r].key))
  /\ UNCHANGED <<gallery, route, lst, opt, env, bucket, cache, req, ctx, put, head, uploadVars>>

(* a handler that awaits cache.put before it returns the response *)
Process_AwaitsCachePut(r, o) ==
  /\ pc[r] = "process"
  /\ LET result == processImage(ctx[r].fullKey, ctx[r].options, env, o)
     IN /\ calls' = [calls EXCEPT ![r].kv = result.kv,
                                  ![r].transform = @ + result.transform,
                                  ![r].put = IF result.ok THEN @ + 1 ELSE @]
        /\ IF result.threw
             THEN /\ Respond(r, createErrorResponse("Failed to serve image",
                                                     "INTERNAL_ERROR", 500))
                  /\ UNCHANGED <<gallery, route, put, cache>>
           ELSE IF ~result.ok
             THEN /\ Respond(r, createErrorResponse("Image processing failed",
                                                     "PROCESSING_ERROR", 500))
                  /\ UNCHANGED <<gallery, route, put, cache>>
           ELSE /\ Respond(r, ImageResponse("MISS", result.body))
                /\ put' = [put EXCEPT ![r] = "done"]
                /\ cache' = [k \in DOMAIN cache \cup {ctx[r].cacheKey} |->
                               IF k = ctx[r].cacheKey
                                 THEN [body |-> result.body, writer |-> r]
                                 ELSE cache[k]]
  /\ UNCHANGED <<gallery, route, lst, opt, env, bucket, req, ctx, head, uploadVars>>

(* processImage settles; on success the response is returned with the      *)
(* cache.put handed to waitUntil                                           *)
Process(r, o) ==
  /\ pc[r] = "process"
  /\ LET result == processImage(ctx[r].fullKey, ctx[r].options, env, o)
     IN /\ IF result.threw
             THEN /\ Respond(r, createErrorResponse("Failed to serve image",
                                                     "INTERNAL_ERROR", 500))
                  /\ UNCHANGED put
                  /\ calls' = [calls EXCEPT ![r].kv = result.kv,
                                            ![r].transform = @ + result.transform]
           ELSE IF ~result.ok
             THEN /\ Respond(r, createErrorResponse("Image processing failed",
                                                     "PROCESSING_ERROR", 500))
                  /\ UNCHANGED put
                  /\ calls' = [calls EXCEPT ![r].kv = result.kv,
                                            ![r].transform = @ + result.transform]
           ELSE /\ Respond(r, ImageResponse("MISS", result.body))
                /\ put' = [put EXCEPT ![r] = "pending"]
                /\ calls' = [calls EXCEPT ![r].kv = result.kv,
                                          ![r].transform = @ + result.transform,
                                          ![r].put = @ + 1]
  /\ UNCHANGED <<gallery, route, lst, opt, env, bucket, cache, req, ctx, head, uploadVars>>

(* a deferred write that stores the original object instead of the         *)
(* processed response                                                      *)
CachePutComplete_StoresOriginal(r) ==
  /\ put[r] = "pending"
  /\ put' = [put EXCEPT ![r] = "done"]
  /\ cache' = [k \in DOMAIN cache \cup {ctx[r].cacheKey} |->
                 IF k = ctx[r].cacheKey
                   THEN [body |-> [src |-> ctx[r].fullKey], writer |-> r]
                   ELSE cache[k]]
  /\ UNCHANGED <<gallery, route, lst, opt, env, bucket, pc, req, ctx, resp, calls, head, uploadVars>>

(* the cache.put given to waitUntil completes, after the response *)
CachePutComplete(r) ==
  /\ put[r] = "pending"
  /\ put' = [put EXCEPT ![r] = "done"]
  /\ cache' = [k \in DOMAIN cache \cup {ctx[r].cacheKey} |->
                 IF k = ctx[r].cacheKey
                   THEN [body |-> resp[r].body, writer |-> r]
                   ELSE cache[k]]
  /\ UNCHANGED <<gallery, route, lst, opt, env, bucket, pc, req, ctx, resp, calls, head, uploadVars>>

(* the invocation has returned and its deferred work is finished; the     *)
(* isolate takes the next request                                          *)
GetReturn(r) ==
  /\ pc[r] = "done"
  /\ put[r] # "pending"
  /\ pc' = [pc EXCEPT ![r] = "idle"]
  /\ req' = [req EXCEPT ![r] = NoRequest]
  /\ ctx' = [ctx EXCEPT ![r] = NoContext]
  /\ resp' = [resp EXCEPT ![r] = NoResponse]
  /\ calls' = [calls EXCEPT ![r] = NoCalls]
  /\ put' = [put EXCEPT ![r] = "none"]
  /\ UNCHANGED <<gallery, route, lst, opt, env, bucket, cache, head, uploadVars>>

(* a cached response reaches its max-age and is dropped by the edge cache *)
CacheExpire(k) ==
  /\ k \in DOMAIN cache
  /\ cache' = [j \in DOMAIN cache \ {k} |-> cache[j]]
  /\ UNCHANGED <<gallery, route, lst, opt, env, bucket, pc, req, ctx, resp, calls, put, head, uploadVars>>

(***************************************************************************)
(* Image Serving Handler: onRequestHead                                    *)
(***************************************************************************)
NoHead ==
  [key |-> <<>>, used |-> FALSE, fullKey |-> <<>>, status |-> 0, code |-> "none",
   filename |-> <<>>, probes |-> 0, calls |-> NoCalls]

(* a HEAD handler that fetches the object and runs the serving pipeline to *)
(* learn the metadata of what GET would return                             *)
HeadRequest_ThroughPipeline(key) ==
  /\ LET fullKey == ResolveKey(key)
     IN head' =
          IF Len(key) = 0
            THEN [NoHead EXCEPT !.status = 404, !.code = "FILE_NOT_FOUND"]
          ELSE IF ~env.bucket
            THEN [NoHead EXCEPT !.key = key, !.status = 500, !.code = "INTERNAL_ERROR"]
          ELSE IF fullKey \notin DOMAIN bucket
            THEN [key |-> key, used |-> TRUE, fullKey |-> fullKey, status |-> 404,
                  code |-> "FILE_NOT_FOUND", filename |-> key, probes |-> 0,
                  calls |-> [NoCalls EXCEPT !.get = 1]]
          ELSE [key |-> key, used |-> TRUE, fullKey |-> fullKey, status |-> 200,
                code |-> "none", filename |-> <<>>, probes |-> 0,
                calls |-> [NoCalls EXCEPT !.get = 1, !.transform = 1]]
  /\ UNCHANGED <<gallery, route, lst, opt, env, bucket, cache, pc, req, ctx, resp, calls, put, uploadVars>>

(* one HEAD invocation, entry to response; there is no capability check,   *)
(* so a missing bucket binding throws into the catch block; probes counts  *)
(* PHOTOS_BUCKET.head, calls the other collaborators (none is called)      *)
HeadRequest(key) ==
  /\ LET fullKey == ResolveKey(key)
     IN head' =
          IF Len(key) = 0
            THEN [NoHead EXCEPT !.status = 404, !.code = "FILE_NOT_FOUND"]
          ELSE IF ~env.bucket
            THEN [NoHead EXCEPT !.key = key, !.status = 500, !.code = "INTERNAL_ERROR"]
          ELSE IF fullKey \notin DOMAIN bucket
            THEN [key |-> key, used |-> TRUE, fullKey |-> fullKey, status |-> 404,
                  code |-> "FILE_NOT_FOUND", filename |-> key, probes |-> 1,
                  calls |-> NoCalls]
          ELSE [key |-> key, used |-> TRUE, fullKey |-> fullKey, status |-> 200,
                code |-> "none", filename |-> <<>>, probes |-> 1, calls |-> NoCalls]
  /\ UNCHANGED <<gallery, route, lst, opt, env, bucket, cache, pc, req, ctx, resp, calls, put, uploadVars>>

(***************************************************************************)
(* Validation                                                              *)
(***************************************************************************)
UpperChars ==
  {"A","B","C","D","E","F","G","H","I","J","K","L","M",
   "N","O","P","Q","R","S","T","U","V","W","X","Y","Z"}

ToLower(c) ==
  IF c \notin UpperChars THEN c
  ELSE CASE
       c = "A" -> "a" [] c = "B" -> "b" [] c = "C" -> "c" [] c = "D" -> "d"
    [] c = "E" -> "e" [] c = "F" -> "f" [] c = "G" -> "g" [] c = "H" -> "h"
    [] c = "I" -> "i" [] c = "J" -> "j" [] c = "K" -> "k" [] c = "L" -> "l"
    [] c = "M" -> "m" [] c = "N" -> "n" [] c = "O" -> "o" [] c = "P" -> "p"
    [] c = "Q" -> "q" [] c = "R" -> "r" [] c = "S" -> "s" [] c = "T" -> "t"
    [] c = "U" -> "u" [] c = "V" -> "v" [] c = "W" -> "w" [] c = "X" -> "x"
    [] c = "Y" -> "y" [] c = "Z" -> "z"

(* .replace(/[^a-zA-Z0-9.-]/g, '_') *)
ReplaceUnsafe(s) ==
  [i \in 1..Len(s) |->
     IF s[i] \in (WordChars \ {"_"}) \cup {".", "-"} THEN s[i] ELSE "_"]

(* .replace(/_{2,}/g, '_') *)
RECURSIVE CollapseUnderscores(_)
CollapseUnderscores(s) ==
  IF Len(s) < 2 THEN s
  ELSE IF s[1] = "_" /\ s[2] = "_" THEN CollapseUnderscores(Tail(s))
  ELSE <<s[1]>> \o CollapseUnderscores(Tail(s))

sanitizeFilename(filename) ==
  LET t == CollapseUnderscores(ReplaceUnsafe(filename))
  IN [i \in 1..Len(t) |-> ToLower(t[i])]

(* originalName.split('.').pop(): what follows the last dot, or the name *)
RECURSIVE Extension(_)
Extension(s) ==
  IF \A i \in 1..Len(s) : s[i] # "." THEN s
  ELSE LET i == CHOOSE j \in 1..Len(s) : s[j] = "."
       IN Extension(SubSeq(s, i + 1, Len(s)))

(* `${Date.now()}-${random}.${extension}` *)
generateUniqueFilename(originalName, timestamp, random) ==
  NumToStr(timestamp) \o <<"-">> \o random \o <<".">> \o Extension(originalName)

(* bytes[i] of a Uint8Array, 0-based; -1 stands for undefined *)
ByteAt(bytes, i) == IF i + 1 <= Len(bytes) THEN bytes[i + 1] ELSE -1

(* file.slice(a, b) of the content *)
Slice(bytes, a, b) ==
  SubSeq(bytes, a + 1, IF b < Len(bytes) THEN b ELSE Len(bytes))

(* a magic-byte check that takes any RIFF container for a WebP image *)
isValidImageFile_AnyRiff(file) ==
  IF file.ioError THEN FALSE
  ELSE
    LET bytes == Slice(file.content, 0, 8)
    IN \/ ByteAt(bytes, 0) = 255 /\ ByteAt(bytes, 1) = 216 /\ ByteAt(bytes, 2) = 255
       \/ /\ ByteAt(bytes, 0) = 137 /\ ByteAt(bytes, 1) = 80
          /\ ByteAt(bytes, 2) = 78  /\ ByteAt(bytes, 3) = 71
          /\ ByteAt(bytes, 4) = 13  /\ ByteAt(bytes, 5) = 10
          /\ ByteAt(bytes, 6) = 26  /\ ByteAt(bytes, 7) = 10
       \/ /\ ByteAt(bytes, 0) = 82 /\ ByteAt(bytes, 1) = 73
          /\ ByteAt(bytes, 2) = 70 /\ ByteAt(bytes, 3) = 70

(* isValidImageFile: the leading bytes are read in two slices; a failed    *)
(* read is caught and answers false                                        *)
isValidImageFile(file) ==
  IF file.ioError THEN FALSE
  ELSE
    LET bytes == Slice(file.content, 0, 8)
        webpBytes == Slice(file.content, 8, 12)
    IN \/ ByteAt(bytes, 0) = 255 /\ ByteAt(bytes, 1) = 216 /\ ByteAt(bytes, 2) = 255
       \/ /\ ByteAt(bytes, 0) = 137 /\ ByteAt(bytes, 1) = 80
          /\ ByteAt(bytes, 2) = 78  /\ ByteAt(bytes, 3) = 71
          /\ ByteAt(bytes, 4) = 13  /\ ByteAt(bytes, 5) = 10
          /\ ByteAt(bytes, 6) = 26  /\ ByteAt(bytes, 7) = 10
       \/ /\ ByteAt(bytes, 0) = 82 /\ ByteAt(bytes, 1) = 73
          /\ ByteAt(bytes, 2) = 70 /\ ByteAt(bytes, 3) = 70
          /\ ByteAt(webpBytes, 0) = 87 /\ ByteAt(webpBytes, 1) = 69
          /\ ByteAt(webpBytes, 2) = 66 /\ ByteAt(webpBytes, 3) = 80

AllowedTypes == {"image/jpeg", "image/png", "image/webp"}

validateFile(file, maxFileSize) ==
  IF file.size > maxFileSize
    THEN [valid |-> FALSE, error |-> "File size exceeds maximum allowed size"]
  ELSE IF file.type \notin AllowedTypes
    THEN [valid |-> FALSE, error |-> "File type is not allowed"]
  ELSE IF ~isValidImageFile(file)
    THEN [valid |-> FALSE, error |-> "File does not appear to be a valid image"]
  ELSE [valid |-> TRUE, error |-> "none"]

(***************************************************************************)
(* Photo Upload Handler                                                    *)
(***************************************************************************)
(* the concurrent invocations of onRequestPost *)
Uploads == {"u1", "u2"}

WindowMs == 3600000

DefaultMaxUploadSize == 10485760

(* UPLOAD_RATE_LIMIT of the deployment *)
RateCap == 1

(* the largest batch of the model *)
MaxBatch == 3

(* the values Math.random().toString(36).substring(2, 8) takes in the model *)
Randoms == {<<"k","3","x","9","q","a">>, <<"p","0","m","2","z","z">>}

File(name, size, type, content, ioError) ==
  [name |-> name, size |-> size, type |-> type, content |-> content, ioError |-> ioError]

JpegBytes == <<255, 216, 255, 224, 0, 16, 74, 70>>

PngBytes == <<137, 80, 78, 71, 13, 10, 26, 10>>

WebpBytes == <<82, 73, 70, 70, 36, 0, 0, 0, 87, 69, 66, 80>>

WaveBytes == <<82, 73, 70, 70, 36, 0, 0, 0, 87, 65, 86, 69>>

TextBytes == <<105, 110, 118>>

F_VALID == File(<<"v","a","l","i","d",".","j","p","g">>, 1024, "image/jpeg", JpegBytes, FALSE)

F_PNG == File(<<"b",".","p","n","g">>, 2048, "image/png", PngBytes, FALSE)

F_WEBP == File(<<"c",".","w","e","b","p">>, DefaultMaxUploadSize, "image/webp", WebpBytes, FALSE)

F_MIXED == File(<<"M","y"," ","P","h","o","t","o",".","J","P","G">>, 4096, "image/jpeg", JpegBytes, FALSE)

F_TXT == File(<<"i","n","v","a","l","i","d",".","t","x","t">>, 1024, "text/plain", TextBytes, FALSE)

F_BIG == File(<<"b","i","g",".","j","p","g">>, DefaultMaxUploadSize + 1, "image/jpeg", JpegBytes, FALSE)

F_FAKE == File(<<"f","a","k","e",".","j","p","g">>, 1024, "image/jpeg", TextBytes, FALSE)

F_WAVE == File(<<"d",".","w","e","b","p">>, 1024, "image/webp", WaveBytes, FALSE)

F_IOERR == File(<<"e",".","j","p","g">>, 1024, "image/jpeg", JpegBytes, TRUE)

Batches ==
  { b \in { <<>>, <<F_VALID>>, <<F_MIXED>>, <<F_PNG, F_WEBP>>, <<F_VALID, F_TXT>>,
    <<F_VALID, F_PNG, F_FAKE>>, <<F_BIG, F_VALID>>, <<F_WAVE, F_IOERR>>,
    <<F_VALID, F_MIXED>>, <<F_VALID, F_PNG, F_WEBP>>,
    <<F_VALID, F_PNG, F_WEBP, F_TXT>> } : Len(b) <= MaxBatch }

Headers(ip, jwt, token) == [ip |-> ip, jwt |-> jwt, token |-> token]

DevHeaders == Headers("203.0.113.7", FALSE, "dev-upload-token")

Upload(method, headers, files, formError) ==
  [method |-> method, headers |-> headers, files |-> files, formError |-> formError]

UploadInputs ==
  { Upload("POST", DevHeaders, b, FALSE) : b \in Batches } \cup
  { Upload("POST", Headers("absent", FALSE, "absent"), <<F_VALID>>, FALSE),
    Upload("POST", Headers("203.0.113.7", FALSE, "wrong-token"), <<F_VALID>>, FALSE),
    Upload("POST", Headers("198.51.100.9", TRUE, "absent"), <<F_VALID, F_TXT>>, FALSE),
    Upload("POST", Headers("198.51.100.9", TRUE, "dev-upload-token"), <<F_VALID>>, FALSE),
    Upload("POST", DevHeaders, <<>>, TRUE),
    Upload("OPTIONS", DevHeaders, <<>>, FALSE) }

NoUploadResponse ==
  [status |-> 0, code |-> "none", message |-> "none", retryAfter |-> 0,
   invalid |-> <<>>, photos |-> <<>>, errors |-> <<>>]

UploadError(message, code, status) ==
  [NoUploadResponse EXCEPT !.status = status, !.code = code, !.message = message]

(* createRateLimitError: the Retry-After header is set only for a truthy   *)
(* retryAfter; 0 in the retryAfter field stands for no header              *)
createRateLimitError(retryAfter) ==
  [NoUploadResponse EXCEPT !.status = 429, !.code = "RATE_LIMITED",
                           !.message = "Upload rate limit exceeded",
                           !.retryAfter = retryAfter]

NoUpload ==
  [pc |-> "idle", in |-> Upload("none", DevHeaders, <<>>, FALSE), keys |-> <<>>,
   settled |-> <<>>, resp |-> NoUploadResponse]

(* Math.ceil(a / b) for a >= 0, b > 0 *)
CeilDiv(a, b) == (a + b - 1) \div b

(* a rate limiter whose window, once opened, is never replaced *)
checkRateLimit_NeverResets(headers, counts, t, rateLimit) ==
  LET clientIP == IF headers.ip = "absent" THEN "unknown" ELSE headers.ip
      rateLimitData ==
        IF clientIP \notin DOMAIN counts
          THEN [count |-> 0, resetTime |-> t + WindowMs]
          ELSE counts[clientIP]
  IN IF rateLimitData.count >= rateLimit
       THEN [limited |-> TRUE,
             retryAfter |-> CeilDiv(rateLimitData.resetTime - t, 1000),
             counts |-> counts]
       ELSE [limited |-> FALSE, retryAfter |-> 0,
             counts |-> [ip \in DOMAIN counts \cup {clientIP} |->
                           IF ip = clientIP
                             THEN [rateLimitData EXCEPT !.count = @ + 1]
                             ELSE counts[ip]]]

(* checkRateLimit: whether the request is limited, the Retry-After seconds *)
(* and the map afterwards                                                  *)
checkRateLimit(headers, counts, t, rateLimit) ==
  LET clientIP == IF headers.ip = "absent" THEN "unknown" ELSE headers.ip
      rateLimitData ==
        IF clientIP \notin DOMAIN counts \/ counts[clientIP].resetTime < t
          THEN [count |-> 0, resetTime |-> t + WindowMs]
          ELSE counts[clientIP]
  IN IF rateLimitData.count >= rateLimit
       THEN [limited |-> TRUE,
             retryAfter |-> CeilDiv(rateLimitData.resetTime - t, 1000),
             counts |-> counts]
       ELSE [limited |-> FALSE, retryAfter |-> 0,
             counts |-> [ip \in DOMAIN counts \cup {clientIP} |->
                           IF ip = clientIP
                             THEN [rateLimitData EXCEPT !.count = @ + 1]
                             ELSE counts[ip]]]

(* validateAuthentication: "none" when the request is let through, else   *)
(* the message of the 401 response                                         *)
validateAuthentication(headers, environment) ==
  IF environment = "production" /\ ~headers.jwt THEN "Authentication required"
  ELSE IF environment = "development" /\ headers.token # "dev-upload-token"
    THEN "Invalid upload token"
  ELSE "none"

UploadRespond(u, response) ==
  up' = [up EXCEPT ![u].resp = response, ![u].pc = "done"]

(* a handler that authenticates before it looks at the rate limit *)
UploadStart_AuthBeforeRateLimit(u, in) ==
  /\ up[u].pc = "idle"
  /\ LET limit == checkRateLimit(in.headers, uploadCounts, now, uenv.rateLimit)
         auth == validateAuthentication(in.headers, uenv.environment)
         entered == [up EXCEPT ![u].in = in]
     IN IF IsPreflight(in.method)
          THEN /\ up' = [entered EXCEPT ![u].pc = "done", ![u].resp =
                           [NoUploadResponse EXCEPT !.status = 204]]
               /\ UNCHANGED uploadCounts
        ELSE IF ~env.bucket
          THEN /\ up' = [entered EXCEPT ![u].pc = "done", ![u].resp =
                           UploadError("Storage not configured", "STORAGE_ERROR", 503)]
               /\ UNCHANGED uploadCounts
        ELSE IF auth # "none"
          THEN /\ up' = [entered EXCEPT ![u].pc = "done", ![u].resp =
                           UploadError(auth, "UNAUTHORIZED", 401)]
               /\ UNCHANGED uploadCounts
        ELSE IF limit.limited
          THEN /\ up' = [entered EXCEPT ![u].pc = "done", ![u].resp =
                           createRateLimitError(limit.retryAfter)]
               /\ UNCHANGED uploadCounts
        ELSE /\ uploadCounts' = limit.counts
             /\ up' = [entered EXCEPT ![u].pc = "form"]
  /\ UNCHANGED <<gallery, route, lst, opt, env, bucket, serveVars, head, uenv, now>>

(* entry up to request.formData(): CORS, capability, rate limit, auth *)
UploadStart(u, in) ==
  /\ up[u].pc = "idle"
  /\ LET limit == checkRateLimit(in.headers, uploadCounts, now, uenv.rateLimit)
         entered == [up EXCEPT ![u].in = in]
     IN IF IsPreflight(in.method)
          THEN /\ up' = [entered EXCEPT ![u].pc = "done", ![u].resp =
                           [NoUploadResponse EXCEPT !.status = 204]]
               /\ UNCHANGED uploadCounts
        ELSE IF ~env.bucket
          THEN /\ up' = [entered EXCEPT ![u].pc = "done", ![u].resp =
                           UploadError("Storage not configured", "STORAGE_ERROR", 503)]
               /\ UNCHANGED uploadCounts
        ELSE IF limit.limited
          THEN /\ up' = [entered EXCEPT ![u].pc = "done", ![u].resp =
                           createRateLimitError(limit.retryAfter)]
               /\ UNCHANGED uploadCounts
        ELSE /\ uploadCounts' = limit.counts
             /\ LET auth == validateAuthentication(in.headers, uenv.environment)
                IN IF auth # "none"
                     THEN up' = [entered EXCEPT ![u].pc = "done", ![u].resp =
                                   UploadError(auth, "UNAUTHORIZED", 401)]
                     ELSE up' = [entered EXCEPT ![u].pc = "form"]
  /\ UNCHANGED <<gallery, route, lst, opt, env, bucket, serveVars, head, uenv, now>>

(* the entries of the combined 400 message: name and reason of each file  *)
(* that failed validation, in batch order                                  *)
RECURSIVE InvalidFiles(_, _)
InvalidFiles(files, maxFileSize) ==
  IF Len(files) = 0 THEN <<>>
  ELSE LET v == validateFile(Head(files), maxFileSize)
       IN (IF v.valid THEN <<>> ELSE <<[name |-> Head(files).name, error |-> v.error]>>)
          \o InvalidFiles(Tail(files), maxFileSize)

(* uploadFile up to the PHOTOS_BUCKET.put call: the storage key *)
UploadKey(file, timestamp, random) ==
  EVENT_PREFIX \o SLASH \o
  generateUniqueFilename(sanitizeFilename(file.name), timestamp, random)

(* a handler that rejects the batch only when no file of it is valid *)
UploadParse_UploadsDespiteInvalid(u, rnd) ==
  /\ up[u].pc = "form"
  /\ LET files == up[u].in.files
         invalid == InvalidFiles(files, uenv.maxFileSize)
     IN IF up[u].in.formError
          THEN UploadRespond(u, UploadError("Upload processing failed",
                                            "INTERNAL_ERROR", 500))
        ELSE IF Len(files) = 0
          THEN UploadRespond(u, UploadError("No files provided",
                                            "VALIDATION_FAILED", 400))
        ELSE IF Len(invalid) = Len(files)
          THEN UploadRespond(u, [UploadError("Invalid files", "VALIDATION_FAILED", 400)
                                   EXCEPT !.invalid = invalid])
        ELSE up' = [up EXCEPT
                      ![u].pc = "writing",
                      ![u].keys = [i \in 1..Len(files) |-> UploadKey(files[i], now, rnd[i])],
                      ![u].settled = [i \in 1..Len(files) |-> "pending"]]
  /\ UNCHANGED <<gallery, route, lst, opt, env, bucket, serveVars, head, uenv, uploadCounts, now>>

(* request.formData() answers; every file is validated; an invalid file    *)
(* rejects the batch, otherwise uploadFile is started for every file       *)
UploadParse(u, rnd) ==
  /\ up[u].pc = "form"
  /\ LET files == up[u].in.files
         invalid == InvalidFiles(files, uenv.maxFileSize)
     IN IF up[u].in.formError
          THEN UploadRespond(u, UploadError("Upload processing failed",
                                            "INTERNAL_ERROR", 500))
        ELSE IF Len(files) = 0
          THEN UploadRespond(u, UploadError("No files provided",
                                            "VALIDATION_FAILED", 400))
        ELSE IF Len(invalid) > 0
          THEN UploadRespond(u, [UploadError("Invalid files", "VALIDATION_FAILED", 400)
                                   EXCEPT !.invalid = invalid])
        ELSE up' = [up EXCEPT
                      ![u].pc = "writing",
                      ![u].keys = [i \in 1..Len(files) |-> UploadKey(files[i], now, rnd[i])],
                      ![u].settled = [i \in 1..Len(files) |-> "pending"]]
  /\ UNCHANGED <<gallery, route, lst, opt, env, bucket, serveVars, head, uenv, uploadCounts, now>>

(* the PhotoMetadata entries of the fulfilled uploads, in batch order *)
RECURSIVE SuccessfulUploads(_, _, _)
SuccessfulUploads(w, settled, i) ==
  IF i > Len(settled) THEN <<>>
  ELSE (IF settled[i] = "fulfilled"
          THEN <<[key |-> w.keys[i],
                  filename |-> sanitizeFilename(w.in.files[i].name),
                  size |-> w.in.files[i].size,
                  contentType |-> w.in.files[i].type]>>
          ELSE <<>>)
       \o SuccessfulUploads(w, settled, i + 1)

(* the {filename, error} entries of the rejected uploads, in batch order *)
RECURSIVE FailedUploads(_, _, _)
FailedUploads(w, settled, i) ==
  IF i > Len(settled) THEN <<>>
  ELSE (IF settled[i] = "rejected"
          THEN <<[filename |-> w.in.files[i].name, error |-> "Failed to upload"]>>
          ELSE <<>>)
       \o FailedUploads(w, settled, i + 1)

UploadResult(w, settled) ==
  LET failed == FailedUploads(w, settled, 1)
  IN [NoUploadResponse EXCEPT
        !.status = IF Len(failed) = 0 THEN 201 ELSE 206,
        !.photos = SuccessfulUploads(w, settled, 1),
        !.errors = failed]

(* a handler that awaits the writes with Promise.all: the first failed     *)
(* write fails the whole request                                           *)
UploadPut_FirstFailureFailsBatch(u, i, ok) ==
  /\ up[u].pc = "writing"
  /\ i \in 1..Len(up[u].settled)
  /\ up[u].settled[i] = "pending"
  /\ LET file == up[u].in.files[i]
         key == up[u].keys[i]
         settled == [up[u].settled EXCEPT ![i] = IF ok THEN "fulfilled" ELSE "rejected"]
         finished == \A j \in 1..Len(settled) : settled[j] # "pending"
     IN /\ bucket' =
             IF ok
               THEN [k \in DOMAIN bucket \cup {key} |->
                       IF k = key
                         THEN [originalName |-> file.name, size |-> file.size,
                               contentType |-> file.type, uploaded |-> now,
                               dimensions |-> "none",
                               by |-> <<u, i>>]
                         ELSE bucket[k]]
               ELSE bucket
        /\ up' = [up EXCEPT
                    ![u].settled = settled,
                    ![u].pc = IF finished \/ ~ok THEN "done" ELSE "writing",
                    ![u].resp = IF ~ok THEN UploadError("Upload processing failed",
                                                        "INTERNAL_ERROR", 500)
                                ELSE IF finished THEN UploadResult(up[u], settled)
                                ELSE up[u].resp]
  /\ UNCHANGED <<gallery, route, lst, opt, env, serveVars, head, uenv, uploadCounts, now>>

(* one PHOTOS_BUCKET.put settles; when it is the last of the batch,        *)
(* Promise.allSettled resolves and the response is returned                *)
UploadPut(u, i, ok) ==
  /\ up[u].pc = "writing"
  /\ i \in 1..Len(up[u].settled)
  /\ up[u].settled[i] = "pending"
  /\ LET file == up[u].in.files[i]
         key == up[u].keys[i]
         settled == [up[u].settled EXCEPT ![i] = IF ok THEN "fulfilled" ELSE "rejected"]
         finished == \A j \in 1..Len(settled) : settled[j] # "pending"
     IN /\ bucket' =
             IF ok
               THEN [k \in DOMAIN bucket \cup {key} |->
                       IF k = key
                         THEN [originalName |-> file.name, size |-> file.size,
                               contentType |-> file.type, uploaded |-> now,
                               dimensions |-> "none",
                               by |-> <<u, i>>]
                         ELSE bucket[k]]
               ELSE bucket
        /\ up' = [up EXCEPT
                    ![u].settled = settled,
                    ![u].pc = IF finished THEN "done" ELSE "writing",
                    ![u].resp = IF finished THEN UploadResult(up[u], settled)
                                ELSE up[u].resp]
  /\ UNCHANGED <<gallery, route, lst, opt, env, serveVars, head, uenv, uploadCounts, now>>

(* the invocation has returned its response; the isolate takes the next    *)
(* request                                                                 *)
UploadReturn(u) ==
  /\ up[u].pc = "done"
  /\ up' = [up EXCEPT ![u] = NoUpload]
  /\ UNCHANGED <<gallery, route, lst, opt, env, bucket, serveVars, head, uenv, uploadCounts, now>>

(* the latest time of the model *)
MaxTime == 7200002

(* the amounts by which Date.now() moves on between two requests *)
TickSteps == {WindowMs \div 2, WindowMs \div 2 + 1}

(* time passes *)
Tick(d) ==
  /\ now + d <= MaxTime
  /\ now' = now + d
  /\ UNCHANGED <<gallery, route, lst, opt, env, bucket, serveVars, head, uenv, uploadCounts, up>>

(***************************************************************************)
(* Photo Listing Handler                                                   *)
(***************************************************************************)
NoList ==
  [used |-> FALSE, method |-> "none", limitParam |-> ABSENT, sortParam |-> "absent",
   called |-> FALSE, limit |-> UNSET, status |-> 0, code |-> "none",
   returned |-> <<>>, photos |-> <<>>, hasMore |-> FALSE]

(* Math.min(x, n) for a number x and an integer n: NaN when x is NaN *)
MathMin(x, n) == IF x.nan THEN NAN ELSE IF x.v < n THEN x ELSE Num(n)

FIFTY == <<"5","0">>

(* a listing handler that passes the parsed limit on as it is *)
ListLimit_Uncapped(limitParam) ==
  parseInt(IF TruthyParam(limitParam) THEN limitParam.s ELSE FIFTY)

(* Math.min(parseInt(url.searchParams.get('limit') || '50'), 100) *)
ListLimit(limitParam) ==
  MathMin(parseInt(IF TruthyParam(limitParam) THEN limitParam.s ELSE FIFTY), 100)

(* url.searchParams.get('sort') || 'newest' *)
SortBy(sortParam) == IF sortParam \in {"absent", ""} THEN "newest" ELSE sortParam

(* Date.prototype.toISOString keeps the milliseconds; new Date(iso).getTime() *)
(* reads them back                                                         *)
toISOString(ms) == [seconds |-> ms \div 1000, millis |-> ms % 1000]

getTime(iso) == iso.seconds * 1000 + iso.millis

(* key.split('/').pop() *)
RECURSIVE LastSegment(_)
LastSegment(key) ==
  IF \A i \in 1..Len(key) : key[i] # "/" THEN key
  ELSE LastSegment(Tail(key))

(* the PhotoMetadata the listing builds from an R2 object *)
PhotoOf(key, obj) ==
  [key |-> key,
   filename |-> IF Len(obj.originalName) > 0 THEN obj.originalName
                ELSE IF Len(LastSegment(key)) > 0 THEN LastSegment(key) ELSE key,
   size |-> obj.size,
   contentType |-> obj.contentType,
   uploadedAt |-> toISOString(obj.uploaded)]

(* collation order of the characters of the model's filenames: blank and   *)
(* punctuation, then digits, then letters without regard to case           *)
CollationOrder ==
  <<" ","_","-",".","0","1","2","3","4","5","6","7","8","9",
    "a","b","c","d","e","f","g","h","i","j","k","l","m",
    "n","o","p","q","r","s","t","u","v","w","x","y","z">>

PrimaryWeight(c) == CHOOSE i \in 1..Len(CollationOrder) : CollationOrder[i] = ToLower(c)

(* lower case sorts before upper case when the letters are the same *)
CaseWeight(c) == IF c \in UpperChars THEN 1 ELSE 0

(* lexicographic comparison of two strings by a weight of their characters *)
RECURSIVE CompareBy(_, _, _)
CompareBy(a, b, primary) ==
  IF Len(a) = 0 /\ Len(b) = 0 THEN 0
  ELSE IF Len(a) = 0 THEN 0 - 1
  ELSE IF Len(b) = 0 THEN 1
  ELSE LET wa == IF primary THEN PrimaryWeight(Head(a)) ELSE CaseWeight(Head(a))
           wb == IF primary THEN PrimaryWeight(Head(b)) ELSE CaseWeight(Head(b))
       IN IF wa < wb THEN 0 - 1
          ELSE IF wa > wb THEN 1
          ELSE CompareBy(Tail(a), Tail(b), primary)

(* String.prototype.localeCompare: letters first, case as the tie-break *)
localeCompare(a, b) ==
  IF CompareBy(a, b, TRUE) # 0 THEN CompareBy(a, b, TRUE) ELSE CompareBy(a, b, FALSE)

(* a comparator with the arguments of every case exchanged *)
ComparePhotos_Reversed(a, b, sortBy) ==
  IF sortBy = "oldest" THEN getTime(b.uploadedAt) - getTime(a.uploadedAt)
  ELSE IF sortBy = "name" THEN localeCompare(b.filename, a.filename)
  ELSE IF sortBy = "size" THEN a.size - b.size
  ELSE getTime(a.uploadedAt) - getTime(b.uploadedAt)

(* the comparator sortPhotos hands to Array.prototype.sort *)
ComparePhotos(a, b, sortBy) ==
  IF sortBy = "oldest" THEN getTime(a.uploadedAt) - getTime(b.uploadedAt)
  ELSE IF sortBy = "name" THEN localeCompare(a.filename, b.filename)
  ELSE IF sortBy = "size" THEN b.size - a.size
  ELSE getTime(b.uploadedAt) - getTime(a.uploadedAt)

(* Array.prototype.sort is stable: x goes before the first element that    *)
(* the comparator puts after it                                            *)
RECURSIVE InsertPhoto(_, _, _)
InsertPhoto(x, sorted, sortBy) ==
  IF Len(sorted) = 0 THEN <<x>>
  ELSE IF ComparePhotos(Head(sorted), x, sortBy) > 0 THEN <<x>> \o sorted
  ELSE <<Head(sorted)>> \o InsertPhoto(x, Tail(sorted), sortBy)

RECURSIVE SortPrefix(_, _, _)
SortPrefix(photos, n, sortBy) ==
  IF n = 0 THEN <<>>
  ELSE InsertPhoto(photos[n], SortPrefix(photos, n - 1, sortBy), sortBy)

sortPhotos(photos, sortBy) == SortPrefix(photos, Len(photos), sortBy)

(* the sequences of m different members of K *)
RECURSIVE Arrangements(_, _)
Arrangements(K, m) ==
  IF m = 0 THEN {<<>>}
  ELSE UNION { { <<k>> \o t : t \in Arrangements(K \ {k}, m - 1) } : k \in K }

ListedKeys(b) == { k \in DOMAIN b : StartsWith(k, EVENT_PREFIX \o SLASH) }

Smaller(a, b) == IF a < b THEN a ELSE b

(* what PHOTOS_BUCKET.list({prefix, limit}) answers: the call fails, or    *)
(* the result has no objects field, or a page of at most limit objects     *)
(* under the prefix in the order the store chooses; a limit that is not a  *)
(* positive number is refused or replaced by the store's own default       *)
ListAnswers(b, limit) ==
  LET keys == ListedKeys(b)
      n == Cardinality(keys)
      m == IF limit.set /\ ~limit.nan /\ limit.v >= 1 THEN Smaller(limit.v, n) ELSE n
  IN { [kind |-> "throw", keys |-> <<>>, truncated |-> FALSE],
       [kind |-> "noObjects", keys |-> <<>>, truncated |-> FALSE] } \cup
     { [kind |-> "page", keys |-> page, truncated |-> m < n] : page \in Arrangements(keys, m) }

ListInput(method, limitParam, sortParam) ==
  [method |-> method, limitParam |-> limitParam, sortParam |-> sortParam]

RECURSIVE PhotosOf(_, _)
PhotosOf(keys, b) ==
  IF Len(keys) = 0 THEN <<>>
  ELSE <<PhotoOf(Head(keys), b[Head(keys)])>> \o PhotosOf(Tail(keys), b)

(* one listing invocation, entry to response *)
ListRequest(in, answer) ==
  /\ ~lst.used
  /\ answer \in ListAnswers(bucket, ListLimit(in.limitParam))
  /\ LET entered == [NoList EXCEPT !.used = TRUE, !.method = in.method,
                                   !.limitParam = in.limitParam,
                                   !.sortParam = in.sortParam]
         called == [entered EXCEPT !.called = TRUE,
                                   !.limit = ListLimit(in.limitParam)]
     IN lst' =
          IF IsPreflight(in.method) THEN [entered EXCEPT !.status = 204]
          ELSE IF ~env.bucket
            THEN [entered EXCEPT !.status = 503, !.code = "STORAGE_ERROR"]
          ELSE IF answer.kind = "throw"
            THEN [called EXCEPT !.status = 500, !.code = "INTERNAL_ERROR"]
          ELSE IF answer.kind = "noObjects"
            THEN [called EXCEPT !.status = 200]
          ELSE IF \E i \in 1..Len(answer.keys) : bucket[answer.keys[i]].dimensions = "bad"
            THEN [called EXCEPT !.status = 500, !.code = "INTERNAL_ERROR",
                                !.returned = answer.keys]
          ELSE [called EXCEPT !.status = 200, !.returned = answer.keys,
                              !.photos = sortPhotos(PhotosOf(answer.keys, bucket),
                                                    SortBy(in.sortParam)),
                              !.hasMore = answer.truncated]
  /\ UNCHANGED <<gallery, route, opt, env, bucket, serveVars, head, uploadVars>>

(* the listing invocation has returned; the next request may come *)
ListReturn ==
  /\ lst.used
  /\ lst' = NoList
  /\ UNCHANGED <<gallery, route, opt, env, bucket, serveVars, head, uploadVars>>

(***************************************************************************)
(* Paged listing and the gallery page that follows the cursor              *)
(***************************************************************************)
(* the characters of the model's keys in byte order *)
ByteOrder ==
  <<" ","-",".","/","0","1","2","3","4","5","6","7","8","9",
    "A","B","C","D","E","F","G","H","I","J","K","L","M",
    "N","O","P","Q","R","S","T","U","V","W","X","Y","Z","_",
    "a","b","c","d","e","f","g","h","i","j","k","l","m",
    "n","o","p","q","r","s","t","u","v","w","x","y","z">>

ByteWeight(c) == CHOOSE i \in 1..Len(ByteOrder) : ByteOrder[i] = c

(* key a comes before key b in the lexicographic order of the object store *)
RECURSIVE KeyBefore(_, _)
KeyBefore(a, b) ==
  IF Len(b) = 0 THEN FALSE
  ELSE IF Len(a) = 0 THEN TRUE
  ELSE IF Head(a) = Head(b) THEN KeyBefore(Tail(a), Tail(b))
  ELSE ByteWeight(Head(a)) < ByteWeight(Head(b))

(* the keys of K in key order *)
RECURSIVE KeysInOrder(_)
KeysInOrder(K) ==
  IF K = {} THEN <<>>
  ELSE LET first == CHOOSE k \in K : \A j \in K \ {k} : KeyBefore(k, j)
       IN <<first>> \o KeysInOrder(K \ {first})

(* PHOTOS_BUCKET.list({prefix, limit, cursor}): the next objects under the *)
(* prefix in key order, from after the cursor on; the cursor handed back   *)
(* stands for the last key of the page                                     *)
ListPage(b, limit, cursor) ==
  LET keys == KeysInOrder({ k \in ListedKeys(b) :
                             ~cursor.present \/ KeyBefore(cursor.s, k) })
      n == Len(keys)
      m == IF limit.set /\ ~limit.nan /\ limit.v >= 1 THEN Smaller(limit.v, n) ELSE n
  IN [ keys |-> SubSeq(keys, 1, m), truncated |-> m < n,
       cursor |-> IF m < n THEN Param(keys[m]) ELSE ABSENT ]

NoListResponse ==
  [status |-> 0, photos |-> <<>>, hasMore |-> FALSE, cursor |-> ABSENT]

(* onRequestGet of the listing handler for a request with limit, sort and  *)
(* cursor: the page the store returns is sorted on its own                 *)
ListResponse(limitParam, sortParam, cursorParam, e, b, storeOk) ==
  LET page == ListPage(b, ListLimit(limitParam),
                       IF TruthyParam(cursorParam) THEN cursorParam ELSE ABSENT)
  IN IF ~e.bucket THEN [NoListResponse EXCEPT !.status = 503]
     ELSE IF ~storeOk THEN [NoListResponse EXCEPT !.status = 500]
     ELSE IF \E i \in 1..Len(page.keys) : b[page.keys[i]].dimensions = "bad"
       THEN [NoListResponse EXCEPT !.status = 500]
     ELSE [ status |-> 200,
            photos |-> sortPhotos(PhotosOf(page.keys, b), SortBy(sortParam)),
            hasMore |-> page.truncated,
            cursor |-> IF page.truncated THEN page.cursor ELSE ABSENT ]

(* limit: '20' of loadPhotos *)
GalleryLimit == Param(<<"2","0">>)

(* PhotoGallery after construction; limit is the page size the client asks *)
(* for, '20' in the gallery page                                           *)
NoGallery ==
  [photos |-> <<>>, currentSort |-> "newest", hasMore |-> FALSE, cursor |-> ABSENT,
   limit |-> GalleryLimit]

(* loadPhotos(append): the fetch of /api/list and what the page keeps of   *)
(* the answer; a failed fetch leaves the photos as they are                *)
loadPhotos(g, append, e, b, storeOk) ==
  LET data == ListResponse(g.limit, g.currentSort,
                           IF append /\ TruthyParam(g.cursor) THEN g.cursor ELSE ABSENT,
                           e, b, storeOk)
  IN IF data.status # 200 THEN g
     ELSE [g EXCEPT !.photos = IF append THEN g.photos \o data.photos ELSE data.photos,
                    !.hasMore = data.hasMore,
                    !.cursor = data.cursor]

(* the most pages the client appends in the model *)
MaxPages == 3

(* loadMorePhotos: the Load More button *)
GalleryLoadMore(storeOk) ==
  /\ gallery.hasMore
  /\ Len(gallery.photos) < MaxPages * ListLimit(gallery.limit).v
  /\ gallery' = loadPhotos(gallery, TRUE, env, bucket, storeOk)
  /\ UNCHANGED <<env, bucket, cache, pc, req, ctx, resp, calls, put, head,
                 uenv, uploadCounts, now, up, lst, opt, route>>

(* init and the retry button: loadPhotos() with the cursor left as it is *)
GalleryLoad(storeOk) ==
  /\ gallery' = loadPhotos(gallery, FALSE, env, bucket, storeOk)
  /\ UNCHANGED <<env, bucket, cache, pc, req, ctx, resp, calls, put, head,
                 uenv, uploadCounts, now, up, lst, opt, route>>

(* refreshPhotos: the refresh button, the timer, the page becoming visible *)
GalleryRefresh(storeOk) ==
  /\ gallery' = loadPhotos([gallery EXCEPT !.cursor = ABSENT], FALSE, env, bucket, storeOk)
  /\ UNCHANGED <<env, bucket, cache, pc, req, ctx, resp, calls, put, head,
                 uenv, uploadCounts, now, up, lst, opt, route>>

(* the sort selection changes: currentSort is set and the photos reloaded  *)
GallerySort(sort, storeOk) ==
  /\ gallery' = loadPhotos([gallery EXCEPT !.currentSort = sort, !.cursor = ABSENT],
                           FALSE, env, bucket, storeOk)
  /\ UNCHANGED <<env, bucket, cache, pc, req, ctx, resp, calls, put, head,
                 uenv, uploadCounts, now, up, lst, opt, route>>

(***************************************************************************)
(* Image Processing Adapter: optimizeForWeb                                *)
(***************************************************************************)
NoOptimize ==
  [pc |-> "idle", target |-> 0, quality |-> 0, requests |-> <<>>,
   result |-> [quality |-> 0, contentLength |-> ABSENT]]

(* targetSizeKB: number = 500 *)
DefaultTargetSizeKB == 500

StartQuality == 95

MinimumQuality == 20

QualityStep == 10

ZERO_STR == <<"0">>

(* parseInt(result.headers.get('content-length') || '0') / 1024 <= target  *)
WithinTarget(result, targetSizeKB) ==
  LET resultSize == parseInt(IF TruthyParam(result.contentLength)
                               THEN result.contentLength.s ELSE ZERO_STR)
  IN ~resultSize.nan /\ resultSize.v <= targetSizeKB * 1024

(* what IMAGES...response() answers to one request: it rejects, or a       *)
(* response with some content-length header                                *)
ContentLengths ==
  { ABSENT, Param(<<"0">>), Param(<<"1","0","2","4","0","0">>),
    Param(<<"1","0","2","4","0","1">>), Param(<<"5","1","2","0","0","0">>),
    Param(<<"5","1","2","0","0","1">>), Param(<<"9","0","0","0","0","0">>),
    Param(<<"a","b","c">>) }

TransformAnswers ==
  { [threw |-> TRUE, contentLength |-> ABSENT] } \cup
  { [threw |-> FALSE, contentLength |-> c] : c \in ContentLengths }

(* optimizeForWeb up to the loop: the capability check and the first       *)
(* request, at quality 95                                                  *)
OptimizeStart(targetSizeKB, answer) ==
  /\ opt.pc = "idle"
  /\ opt' =
       IF ~env.images \/ answer.threw
         THEN [NoOptimize EXCEPT !.pc = "threw", !.target = targetSizeKB,
                 !.requests = IF env.images THEN <<StartQuality>> ELSE <<>>]
         ELSE [pc |-> "loop", target |-> targetSizeKB, quality |-> StartQuality,
               requests |-> <<StartQuality>>,
               result |-> [quality |-> StartQuality,
                           contentLength |-> answer.contentLength]]
  /\ UNCHANGED <<gallery, route, lst, env, bucket, serveVars, head, uploadVars>>

(* a loop that lowers the quality by 10 without the floor of 20 *)
OptimizeLoop_NoFloor(answer) ==
  /\ opt.pc = "loop"
  /\ LET quality == opt.quality - QualityStep
     IN opt' =
          IF ~(opt.quality >= MinimumQuality) THEN [opt EXCEPT !.pc = "done"]
          ELSE IF WithinTarget(opt.result, opt.target) THEN [opt EXCEPT !.pc = "done"]
          ELSE IF opt.quality = MinimumQuality THEN [opt EXCEPT !.pc = "done"]
          ELSE IF answer.threw
            THEN [opt EXCEPT !.pc = "threw", !.quality = quality,
                             !.requests = Append(@, quality)]
          ELSE [opt EXCEPT !.quality = quality,
                           !.requests = Append(@, quality),
                           !.result = [quality |-> quality,
                                       contentLength |-> answer.contentLength]]
  /\ UNCHANGED <<gallery, route, lst, env, bucket, serveVars, head, uploadVars>>

(* one pass of while (quality >= 20): return the result when it is within  *)
(* the target or the quality is 20, else request the image again at the    *)
(* next lower quality                                                      *)
OptimizeLoop(answer) ==
  /\ opt.pc = "loop"
  /\ LET lowered == opt.quality - QualityStep
         quality == IF lowered < MinimumQuality THEN MinimumQuality ELSE lowered
     IN opt' =
          IF ~(opt.quality >= MinimumQuality) THEN [opt EXCEPT !.pc = "done"]
          ELSE IF WithinTarget(opt.result, opt.target) THEN [opt EXCEPT !.pc = "done"]
          ELSE IF opt.quality = MinimumQuality THEN [opt EXCEPT !.pc = "done"]
          ELSE IF answer.threw
            THEN [opt EXCEPT !.pc = "threw", !.quality = quality,
                             !.requests = Append(@, quality)]
          ELSE [opt EXCEPT !.quality = quality,
                           !.requests = Append(@, quality),
                           !.result = [quality |-> quality,
                                       contentLength |-> answer.contentLength]]
  /\ UNCHANGED <<gallery, route, lst, env, bucket, serveVars, head, uploadVars>>

(***************************************************************************)
(* Endpoints: the handlers each function file exports, by request method   *)
(***************************************************************************)
Endpoints == {"upload", "list", "images"}

Methods == {"GET", "POST", "OPTIONS", "HEAD", "PUT", "DELETE", "PATCH"}

(* "ANY" stands for the export onRequest, which handles the methods that   *)
(* have no onRequest<Method> export of their own                           *)
Exports(endpoint) ==
  IF endpoint = "upload" THEN {"POST", "GET", "ANY"}
  ELSE IF endpoint = "list" THEN {"GET", "POST", "OPTIONS"}
  ELSE {"GET", "OPTIONS", "POST", "HEAD"}

(* exports that are the endpoint's request pipeline *)
Pipelines(endpoint) ==
  IF endpoint = "upload" THEN {"POST"}
  ELSE IF endpoint = "list" THEN {"GET"}
  ELSE {"GET", "HEAD"}

(* the export that receives a request of this method *)
HandlerFor(endpoint, method) ==
  IF method \in Exports(endpoint) THEN method
  ELSE IF "ANY" \in Exports(endpoint) THEN "ANY"
  ELSE "none"

NoRoute ==
  [endpoint |-> "none", method |-> "none", handler |-> "none", status |-> 0,
   code |-> "none"]

(* a request reaches an endpoint: onRequestOptions answers the preflight,  *)
(* the method-not-allowed exports answer 405, the pipelines go on in their *)
(* own actions, and a method without an export gets no answer from here    *)
Route(endpoint, method) ==
  /\ LET handler == HandlerFor(endpoint, method)
     IN route' =
          IF handler = "none"
            THEN [endpoint |-> endpoint, method |-> method, handler |-> "none",
                  status |-> 0, code |-> "unhandled"]
          ELSE IF handler \in Pipelines(endpoint)
            THEN [endpoint |-> endpoint, method |-> method, handler |-> handler,
                  status |-> 0, code |-> "pipeline"]
          ELSE IF handler = "OPTIONS"
            THEN [endpoint |-> endpoint, method |-> method, handler |-> handler,
                  status |-> CorsResponse.status, code |-> CorsResponse.code]
          ELSE [endpoint |-> endpoint, method |-> method, handler |-> handler,
                status |-> 405, code |-> "METHOD_NOT_ALLOWED"]
  /\ UNCHANGED <<env, bucket, cache, pc, req, ctx, resp, calls, put, head,
                 uenv, uploadCounts, now, up, lst, opt, gallery>>

(***************************************************************************)
(* Specifications                                                          *)
(***************************************************************************)
StoredObject ==
  [originalName |-> KEY_A, size |-> 1024, contentType |-> "image/jpeg",
   uploaded |-> 0, dimensions |-> "none", by |-> <<"seed", 1>>]

InitServing ==
  /\ bucket = [k \in {KEY_A_FULL} |-> StoredObject]
  /\ cache = [k \in {} |-> NoBody]
  /\ pc = [r \in Requests |-> "idle"]
  /\ req = [r \in Requests |-> NoRequest]
  /\ ctx = [r \in Requests |-> NoContext]
  /\ resp = [r \in Requests |-> NoResponse]
  /\ calls = [r \in Requests |-> NoCalls]
  /\ put = [r \in Requests |-> "none"]
  /\ head = NoHead

InitUpload ==
  /\ uploadCounts = [ip \in {} |-> [count |-> 0, resetTime |-> 0]]
  /\ now = 0
  /\ up = [u \in Uploads |-> NoUpload]
  /\ lst = NoList
  /\ opt = NoOptimize
  /\ route = NoRoute
  /\ gallery = NoGallery

vars == <<env, bucket, cache, pc, req, ctx, resp, calls, put, head,
          uenv, uploadCounts, now, up, lst, opt, route, gallery>>

(* two concurrent image-serving GET invocations over one cache and bucket *)
Init ==
  /\ env \in [bucket : BOOLEAN, images : BOOLEAN, branding : BOOLEAN]
  /\ uenv = [environment |-> "development", rateLimit |-> RateCap,
             maxFileSize |-> DefaultMaxUploadSize]
  /\ InitServing
  /\ InitUpload

Next ==
  \/ \E r \in Requests, in \in ServeInputs : GetStart(r, in)
  \/ \E r \in Requests : CacheMatch(r)
  \/ \E r \in Requests : FetchOriginal(r)
  \/ \E r \in Requests, o \in ProcessOutcomes : Process(r, o)
  \/ \E r \in Requests : CachePutComplete(r)
  \/ \E k \in DOMAIN cache : CacheExpire(k)

Spec == Init /\ [][Next]_vars

(* two concurrent upload invocations over one bucket, rate-limit map and   *)
(* clock                                                                   *)
InitUploads ==
  /\ env \in [bucket : BOOLEAN, images : {TRUE}, branding : {TRUE}]
  /\ uenv \in [environment : {"production", "development", "test"},
               rateLimit : {RateCap}, maxFileSize : {DefaultMaxUploadSize}]
  /\ InitServing
  /\ InitUpload

NextUploads ==
  \/ \E u \in Uploads, in \in UploadInputs : UploadStart(u, in)
  \/ \E u \in Uploads : \E rnd \in [1..Len(up[u].in.files) -> Randoms] : UploadParse(u, rnd)
  \/ \E u \in Uploads, i \in 1..MaxBatch, ok \in BOOLEAN : UploadPut(u, i, ok)

SpecUploads == InitUploads /\ [][NextUploads]_vars

(* upload invocations one after another from two clients while the clock   *)
(* moves through the rate-limit window; the requests are answered before   *)
(* any write (401, 400), so the object store stays as it is                *)
RateInputs ==
  { Upload("POST", DevHeaders, <<>>, FALSE),
    Upload("POST", DevHeaders, <<F_TXT>>, FALSE),
    Upload("POST", Headers("203.0.113.7", FALSE, "wrong-token"), <<F_VALID>>, FALSE),
    Upload("POST", Headers("absent", FALSE, "dev-upload-token"), <<>>, FALSE),
    Upload("OPTIONS", DevHeaders, <<>>, FALSE) }

InitRate ==
  /\ env = [bucket |-> TRUE, images |-> TRUE, branding |-> TRUE]
  /\ uenv = [environment |-> "development", rateLimit |-> RateCap,
             maxFileSize |-> DefaultMaxUploadSize]
  /\ InitServing
  /\ InitUpload

NextRate ==
  \/ \E u \in Uploads, in \in RateInputs : UploadStart(u, in)
  \/ \E u \in Uploads : \E rnd \in [1..Len(up[u].in.files) -> Randoms] : UploadParse(u, rnd)
  \/ \E u \in Uploads : UploadReturn(u)
  \/ \E d \in TickSteps : Tick(d)

SpecRate == InitRate /\ [][NextRate]_vars

(* listing invocations over object stores of several contents *)
ListedObject(name, size, uploaded, dimensions) ==
  [originalName |-> name, size |-> size, contentType |-> "image/jpeg",
   uploaded |-> uploaded, dimensions |-> dimensions, by |-> <<"seed", 1>>]

LIST_KEY_1 == EVENT_PREFIX \o <<"/","1","-","a",".","j","p","g">>

LIST_KEY_2 == EVENT_PREFIX \o <<"/","2","-","b",".","j","p","g">>

LIST_KEY_3 == EVENT_PREFIX \o <<"/","3","-","c",".","j","p","g">>

LIST_KEY_4 == EVENT_PREFIX \o <<"/","4","-","d",".","j","p","g">>

OTHER_KEY == <<"o","t","h","e","r","/","x",".","j","p","g">>

ZEBRA == ListedObject(<<"z","e","b","r","a",".","j","p","g">>, 300, 2000, "none")

APPLE == ListedObject(<<"a","p","p","l","e",".","j","p","g">>, 500, 1000, "ok")

UNNAMED == ListedObject(<<>>, 500, 3500, "none")

APPLE_UPPER == ListedObject(<<"A","p","p","l","e",".","j","p","g">>, 100, 1000, "none")

BROKEN == ListedObject(<<"b",".","j","p","g">>, 100, 1000, "bad")

ListBuckets ==
  { [k \in {} |-> ZEBRA],
    (LIST_KEY_1 :> ZEBRA) @@ (LIST_KEY_2 :> APPLE),
    (LIST_KEY_1 :> ZEBRA) @@ (LIST_KEY_2 :> APPLE) @@ (OTHER_KEY :> UNNAMED),
    (LIST_KEY_1 :> ZEBRA) @@ (LIST_KEY_2 :> APPLE) @@ (LIST_KEY_3 :> UNNAMED),
    (LIST_KEY_1 :> APPLE_UPPER) @@ (LIST_KEY_2 :> APPLE) @@ (LIST_KEY_3 :> UNNAMED)
      @@ (LIST_KEY_4 :> ZEBRA),
    (LIST_KEY_1 :> ZEBRA) @@ (LIST_KEY_2 :> BROKEN) }

ListInputs ==
  { ListInput("GET", l, "absent") :
      l \in { ABSENT, Param(<<>>), Param(<<"2">>), Param(<<"1","0">>),
              Param(<<"1","0","0">>), Param(<<"1","0","1">>), Param(<<"2","0","0">>),
              Param(<<"a","b","c">>), Param(<<"0">>), Param(<<"-","5">>) } } \cup
  { ListInput("GET", l, st) :
      l \in { ABSENT, Param(<<"2">>) },
      st \in { "", "newest", "oldest", "name", "size", "random" } } \cup
  { ListInput("OPTIONS", ABSENT, "absent") }

InitList ==
  /\ env \in [bucket : BOOLEAN, images : {TRUE}, branding : {TRUE}]
  /\ uenv = [environment |-> "development", rateLimit |-> RateCap,
             maxFileSize |-> DefaultMaxUploadSize]
  /\ bucket \in ListBuckets
  /\ cache = [k \in {} |-> NoBody]
  /\ pc = [r \in Requests |-> "idle"]
  /\ req = [r \in Requests |-> NoRequest]
  /\ ctx = [r \in Requests |-> NoContext]
  /\ resp = [r \in Requests |-> NoResponse]
  /\ calls = [r \in Requests |-> NoCalls]
  /\ put = [r \in Requests |-> "none"]
  /\ head = NoHead
  /\ InitUpload

NextList ==
  \/ \E in \in ListInputs :
       \E answer \in ListAnswers(bucket, ListLimit(in.limitParam)) : ListRequest(in, answer)
  \/ ListReturn

SpecList == InitList /\ [][NextList]_vars

(* one image-serving GET invocation, with and without watermark, against   *)
(* every answer of the branding store and of the transform service         *)
WatermarkInputs ==
  { Request("GET", KEY_A, DefaultQuery),
    Request("GET", KEY_A, OnlyW(<<"8","0","0">>)),
    Request("GET", KEY_A, OnlyQ(<<"7","5">>)),
    Request("GET", KEY_MISSING, DefaultQuery),
    Request("GET", KEY_A, Query(ABSENT, ABSENT, ABSENT, Param(FALSE_STR), "absent")),
    Request("GET", KEY_A, Query(Param(<<"8","0","0">>), ABSENT, ABSENT, Param(FALSE_STR),
                                "image/webp")) }

NextWatermark ==
  \/ \E in \in WatermarkInputs : GetStart("r1", in)
  \/ CacheMatch("r1")
  \/ FetchOriginal("r1")
  \/ \E o \in ProcessOutcomes : Process("r1", o)
  \/ CachePutComplete("r1")
  \/ \E k \in DOMAIN cache : CacheExpire(k)

SpecWatermark == Init /\ [][NextWatermark]_vars

(* one optimizeForWeb call against every sequence of answers of the        *)
(* transform service                                                       *)
NextOptimize ==
  \/ \E targetSizeKB \in {DefaultTargetSizeKB, 100}, answer \in TransformAnswers :
       OptimizeStart(targetSizeKB, answer)
  \/ \E answer \in TransformAnswers : OptimizeLoop(answer)

SpecOptimize == Init /\ [][NextOptimize]_vars

(* one upload invocation per slot, each with a single file drawn from     *)
(* sizes, declared types and leading bytes of every kind                   *)
ValidateSizes == {0, 3, 10, 1024, DefaultMaxUploadSize, DefaultMaxUploadSize + 1}

ValidateTypes == {"image/jpeg", "image/png", "image/webp", "image/gif", "text/plain", ""}

ValidateContents ==
  { <<>>, TextBytes, JpegBytes, <<255, 216, 255>>, <<255, 216, 254>>,
    PngBytes, <<137, 80, 78, 71, 13, 10, 26>>, <<137, 80, 78, 71, 13, 10, 26, 11>>,
    WebpBytes, WaveBytes, <<82, 73, 70, 70>>, <<82, 73, 70, 70, 36, 0, 0, 0, 87, 69>>,
    <<87, 69, 66, 80, 36, 0, 0, 0, 82, 73, 70, 70>> }

(* content holds the first twelve bytes of the file *)
ValidateFiles ==
  { File(<<"p",".","j","p","g">>, t[1], t[2], t[3], t[4]) :
      t \in { x \in ValidateSizes \X ValidateTypes \X ValidateContents \X BOOLEAN :
                IF x[1] < 12 THEN Len(x[3]) = x[1] ELSE Len(x[3]) <= x[1] } }

ValidateInputs ==
  { Upload("POST", DevHeaders, <<f>>, FALSE) : f \in ValidateFiles } \cup
  { Upload("POST", DevHeaders, <<F_BIG, F_WAVE, F_VALID, F_TXT>>, FALSE) }

NextValidate ==
  \/ \E in \in ValidateInputs : UploadStart("u1", in)
  \/ \E rnd \in [1..Len(up["u1"].in.files) -> Randoms] : UploadParse("u1", rnd)
  \/ \E i \in 1..MaxBatch, ok \in BOOLEAN : UploadPut("u1", i, ok)

SpecValidate == InitRate /\ [][NextValidate]_vars

(* two concurrent image-serving GET invocations whose supplied keys differ *)
(* only in characters outside [A-Za-z0-9_.-]                               *)
KEY_A_UNDERSCORE == EVENT_PREFIX \o <<"_","a",".","j","p","g">>

KEY_SPACE == <<"a"," ","b",".","j","p","g">>

KEY_UNDERSCORE == <<"a","_","b",".","j","p","g">>

CollidingInputs ==
  { Request("GET", k, qy) :
      k \in {KEY_A, KEY_A_FULL, KEY_A_UNDERSCORE, KEY_SPACE, KEY_UNDERSCORE},
      qy \in {DefaultQuery, OnlyW(<<"8","0","0">>), OnlyW(<<"a","b","c">>),
              OnlyH(<<"8","0","0">>)} }

NextColliding ==
  \/ \E r \in Requests, in \in CollidingInputs : GetStart(r, in)
  \/ \E r \in Requests : CacheMatch(r)
  \/ \E r \in Requests : FetchOriginal(r)
  \/ \E r \in Requests, o \in ProcessOutcomes : Process(r, o)
  \/ \E r \in Requests : CachePutComplete(r)
  \/ \E k \in DOMAIN cache : CacheExpire(k)

SpecColliding == Init /\ [][NextColliding]_vars

(* image-serving GET invocations, two at a time and one after another,    *)
(* in a deployment whose branding store and transform service answer every *)
(* call in the same way; cached responses do not expire                    *)
StableAnswers ==
  [ kv1 : {"found", "missing", "throw"}, draw1 : {"ok"},
    kv2 : {"found", "missing"}, draw2 : {"ok", "throw"},
    xform : {"ok", "notok", "throw"} ]

TwinInputs ==
  { Request("GET", KEY_A, DefaultQuery),
    Request("GET", KEY_A, OnlyW(<<"8","0","0">>)),
    Request("GET", KEY_MISSING, DefaultQuery) }

InitTwins ==
  /\ env \in [bucket : {TRUE}, images : BOOLEAN, branding : BOOLEAN,
               answers : StableAnswers]
  /\ uenv = [environment |-> "development", rateLimit |-> RateCap,
             maxFileSize |-> DefaultMaxUploadSize]
  /\ InitServing
  /\ InitUpload

NextTwins ==
  \/ \E r \in Requests, in \in TwinInputs : GetStart(r, in)
  \/ \E r \in Requests : CacheMatch(r)
  \/ \E r \in Requests : FetchOriginal(r)
  \/ \E r \in Requests : Process(r, env.answers)
  \/ \E r \in Requests : CachePutComplete(r)
  \/ \E r \in Requests : GetReturn(r)

SpecTwins == InitTwins /\ [][NextTwins]_vars

(* one upload invocation with a batch within or beyond the number of      *)
(* files the constraints allow; the writes settle in any order and the     *)
(* first of them may fail                                                  *)
MaxFiles == 10

BatchOf(n) == [i \in 1..n |-> F_VALID]

BatchRandom(i) == <<"r", "0", "0", "0", DigitChar(i \div 10), DigitChar(i % 10)>>

BatchInputs ==
  { Upload("POST", DevHeaders, BatchOf(n), FALSE) : n \in {1, 2, MaxFiles + 1} } \cup
  { Upload("POST", DevHeaders, <<F_VALID, F_TXT>>, FALSE) }

NextBatch ==
  \/ \E in \in BatchInputs : UploadStart("u1", in)
  \/ UploadParse("u1", [i \in 1..Len(up["u1"].in.files) |-> BatchRandom(i)])
  \/ \E i \in 1..(MaxFiles + 1) : UploadPut("u1", i, TRUE)
  \/ UploadPut("u1", 1, FALSE)

SpecBatch == InitRate /\ [][NextBatch]_vars

(* one upload invocation and listing invocations over the same object     *)
(* store                                                                   *)
RoundTripInputs ==
  { Upload("POST", DevHeaders, b, FALSE) :
      b \in { <<F_VALID>>, <<F_MIXED>>, <<F_PNG, F_WEBP>>, <<F_VALID, F_MIXED>> } }

RoundTripListInputs ==
  { ListInput("GET", ABSENT, "absent"), ListInput("GET", Param(<<"2">>), "name") }

NextRoundTrip ==
  \/ \E in \in RoundTripInputs : UploadStart("u1", in)
  \/ \E rnd \in [1..Len(up["u1"].in.files) -> Randoms] : UploadParse("u1", rnd)
  \/ \E i \in 1..MaxBatch, ok \in BOOLEAN : UploadPut("u1", i, ok)
  \/ \E in \in RoundTripListInputs :
       \E answer \in ListAnswers(bucket, ListLimit(in.limitParam)) : ListRequest(in, answer)
  \/ ListReturn

SpecRoundTrip == InitRate /\ [][NextRoundTrip]_vars

(* the gallery page over object stores of up to three pages of photos,    *)
(* uploaded in the order of their keys or against it                       *)
GalleryKey(i) ==
  EVENT_PREFIX \o SLASH \o
  <<DigitChar((10 + i) \div 10), DigitChar((10 + i) % 10), "-", "x", ".", "j", "p", "g">>

GalleryObject(i, pattern) ==
  ListedObject(<<"p", DigitChar((90 - i) \div 10), DigitChar((90 - i) % 10),
                 ".", "j", "p", "g">>,
               100 + ((i * 7) % 5),
               IF pattern = "ascending" THEN 1000 * i
               ELSE IF pattern = "descending" THEN 1000 * (100 - i)
               ELSE 5000,
               "none")

GalleryBuckets ==
  { [k \in { GalleryKey(i) : i \in 1..t[1] } |->
       GalleryObject(CHOOSE i \in 1..t[1] : GalleryKey(i) = k, t[2])] :
      t \in ({0, 1, 3, 5} \X {"ascending", "descending", "same"})
            \cup {<<21, "ascending">>} }

GallerySorts == {"newest", "oldest", "name", "size"}

(* the page sizes of the clients: a small one and the gallery page's *)
ClientLimits == {Param(<<"2">>), GalleryLimit}

InitGallery ==
  /\ env \in [bucket : BOOLEAN, images : {TRUE}, branding : {TRUE}]
  /\ uenv = [environment |-> "development", rateLimit |-> RateCap,
             maxFileSize |-> DefaultMaxUploadSize]
  /\ bucket \in GalleryBuckets
  /\ cache = [k \in {} |-> NoBody]
  /\ pc = [r \in Requests |-> "idle"]
  /\ req = [r \in Requests |-> NoRequest]
  /\ ctx = [r \in Requests |-> NoContext]
  /\ resp = [r \in Requests |-> NoResponse]
  /\ calls = [r \in Requests |-> NoCalls]
  /\ put = [r \in Requests |-> "none"]
  /\ head = NoHead
  /\ uploadCounts = [ip \in {} |-> [count |-> 0, resetTime |-> 0]]
  /\ now = 0
  /\ up = [u \in Uploads |-> NoUpload]
  /\ lst = NoList
  /\ opt = NoOptimize
  /\ route = NoRoute
  /\ gallery \in { [NoGallery EXCEPT !.limit = l] : l \in ClientLimits }

NextGallery ==
  \/ \E storeOk \in BOOLEAN : GalleryLoad(storeOk)
  \/ \E storeOk \in BOOLEAN : GalleryRefresh(storeOk)
  \/ \E sort \in GallerySorts, storeOk \in BOOLEAN : GallerySort(sort, storeOk)
  \/ \E storeOk \in BOOLEAN : GalleryLoadMore(storeOk)

SpecGallery == InitGallery /\ [][NextGallery]_vars

(* requests of every method to the three endpoints, next to listing and   *)
(* HEAD invocations                                                        *)
NextRoutes ==
  \/ \E endpoint \in Endpoints, method \in Methods : Route(endpoint, method)
  \/ \E k \in {KEY_A, KEY_MISSING, <<>>} : HeadRequest(k)

SpecRoutes == Init /\ [][NextRoutes]_vars

(* one image-serving GET invocation and HEAD invocations over a wide set   *)
(* of supplied keys                                                        *)
WideKeys ==
  { KEY_A, KEY_A_FULL, <<>>,
    <<"z",".","j","p","g">>,
    <<"2","5","t","h","A","n","n","i","v","e","r","s","a","r","y">>,
    <<"2","5","t","h","A","n","n","i","v","e","r","s","a","r","y","X","/","s",".","j","p","g">>,
    <<"2","5","t","h","A","n","n","i","v","e","r","s","a","r">>,
    <<"/","2","5","t","h","A","n","n","i","v","e","r","s","a","r","y","/","a",".","j","p","g">>,
    <<"2","5","t","h","a","n","n","i","v","e","r","s","a","r","y","/","a",".","j","p","g">>,
    <<".",".","/","a",".","j","p","g">>,
    <<"2","5","t","h","A","n","n","i","v","e","r","s","a","r","y","/","2","5","t","h","A","n","n","i","v","e","r","s","a","r","y","/","a",".","j","p","g">>,
    <<"a"," ","b",".","j","p","g">>,
    <<"2","5","t","h","A","n","n","i","v","e","r","s","a","r","y","/","z",".","j","p","g">> }

KeyInputs ==
  { Request("GET", k, qy) : k \in WideKeys,
      qy \in {DefaultQuery, OnlyW(<<"8","0","0">>), OnlyQ(<<"a","b","c">>)} }

NextKeys ==
  \/ \E in \in KeyInputs : GetStart("r1", in)
  \/ CacheMatch("r1")
  \/ FetchOriginal("r1")
  \/ \E o \in ProcessOutcomes : Process("r1", o)
  \/ CachePutComplete("r1")
  \/ \E k \in DOMAIN cache : CacheExpire(k)
  \/ \E k \in WideKeys : HeadRequest(k)

SpecKeys == Init /\ [][NextKeys]_vars

(***************************************************************************)
(* Properties of the image-serving GET handler                             *)
(***************************************************************************)
IsMiss(response) == response.status = 200 /\ response.xcache = "MISS"

IsHit(response) == response.status = 200 /\ response.xcache = "HIT"

(* the cache.match of invocation r answers in this step *)
MatchAnswers(r) == pc[r] = "match" /\ pc'[r] # "match"

(* the entry the deferred write of r1 stored is still what the cache holds *)
LiveEntryOf(r1) ==
  /\ put[r1] = "done"
  /\ ctx[r1].cacheKey \in DOMAIN cache
  /\ cache[ctx[r1].cacheKey].writer = r1

SameKeyAndOptions(r1, r2) ==
  /\ req[r1].key = req[r2].key
  /\ ctx[r1].options = ctx[r2].options

(* C1: when a first call was answered MISS and its deferred cache write    *)
(* has completed, a second call with the same key and the same options     *)
(* whose cache lookup answers before that entry expires is answered HIT,   *)
(* with the body the first call returned.                                  *)
C1_MissThenHit ==
  [][\A r1, r2 \in Requests :
       (r1 # r2 /\ MatchAnswers(r2) /\ LiveEntryOf(r1) /\ SameKeyAndOptions(r1, r2))
         => /\ IsMiss(resp[r1])
            /\ IsHit(resp'[r2])
            /\ resp'[r2].body = resp[r1].body]_vars

C1_Witness ==
  \E r1, r2 \in Requests :
    /\ r1 # r2
    /\ SameKeyAndOptions(r1, r2)
    /\ IsMiss(resp[r1]) /\ put[r1] = "done"
    /\ IsHit(resp[r2])
    /\ resp[r2].body = resp[r1].body

(* a parsed option that is a number outside its bound *)
OutOfBound(options) ==
  \/ /\ options.width.set /\ ~options.width.nan
     /\ (options.width.v < 1 \/ options.width.v > 4000)
  \/ /\ options.height.set /\ ~options.height.nan
     /\ (options.height.v < 1 \/ options.height.v > 4000)
  \/ /\ options.quality.set /\ ~options.quality.nan
     /\ (options.quality.v < 1 \/ options.quality.v > 100)

NoCollaboratorCalled(r) == calls[r] = NoCalls /\ put[r] = "none"

IsValidationFailure(response) ==
  response.status = 400 /\ response.code = "VALIDATION_FAILED"

(* C2 as stated: every GET request with an option outside its bound is     *)
(* answered 400 VALIDATION_FAILED without any call to the cache, the       *)
(* object store or the transform service.                                  *)
C2_Original ==
  \A r \in Requests :
    (pc[r] # "idle" /\ req[r].method = "GET" /\ OutOfBound(ParseOptions(req[r].query)))
      => IsValidationFailure(resp[r]) /\ NoCollaboratorCalled(r)

(* C2 amended: a GET request with an option outside its bound never calls  *)
(* the cache, the object store or the transform service, and it is         *)
(* answered 400 VALIDATION_FAILED whenever the storage binding is          *)
(* configured and the key is not empty (503 and 404 are answered first).   *)
C2_RejectsOutOfBound ==
  \A r \in Requests :
    (pc[r] # "idle" /\ req[r].method = "GET" /\ OutOfBound(ParseOptions(req[r].query)))
      => /\ pc[r] = "done"
         /\ NoCollaboratorCalled(r)
         /\ (env.bucket /\ Len(req[r].key) > 0) => IsValidationFailure(resp[r])

C2_Witness ==
  \E r \in Requests :
    /\ req[r].method = "GET" /\ OutOfBound(ParseOptions(req[r].query))
    /\ IsValidationFailure(resp[r])
    /\ NoCollaboratorCalled(r)

(* a dimension is unset or an integer in [1, 4000] *)
DimensionInBounds(x) == ~x.set \/ (~x.nan /\ x.v >= 1 /\ x.v <= 4000)

(* the quality is an integer in [1, 100] *)
QualityInBounds(x) == x.set /\ ~x.nan /\ x.v >= 1 /\ x.v <= 100

(* C3: whenever the handler reaches cache lookup, object fetch or          *)
(* processing, width and height are unset or integers in [1, 4000] and     *)
(* quality is an integer in [1, 100], 90 when q is absent.                 *)
C3_EffectiveOptionsInBounds ==
  \A r \in Requests :
    ctx[r].resolved
      => /\ DimensionInBounds(ctx[r].options.width)
         /\ DimensionInBounds(ctx[r].options.height)
         /\ QualityInBounds(ctx[r].options.quality)
         /\ ~req[r].query.q.present => ctx[r].options.quality = Num(90)

HasEventPrefix(k) ==
  Len(k) >= Len(EVENT_PREFIX) /\ SubSeq(k, 1, Len(EVENT_PREFIX)) = EVENT_PREFIX

KeyResolved(supplied, storageKey) ==
  /\ HasEventPrefix(storageKey)
  /\ HasEventPrefix(supplied) => storageKey = supplied
  /\ ~HasEventPrefix(supplied) => storageKey = EVENT_PREFIX \o <<"/">> \o supplied

(* C4: the storage key GET and HEAD use begins with the event prefix; it   *)
(* is the supplied key when that already starts with the prefix, and       *)
(* prefix + "/" + supplied key otherwise.                                  *)
C4_KeyResolution ==
  /\ \A r \in Requests : ctx[r].resolved => KeyResolved(req[r].key, ctx[r].fullKey)
  /\ head.used => KeyResolved(head.key, head.fullKey)

C4_Witness ==
  /\ ctx["r1"].resolved /\ ~HasEventPrefix(req["r1"].key)
  /\ head.used /\ HasEventPrefix(head.key) /\ head.status = 200

(* C5: when the cache holds an entry for the request's cache key, the      *)
(* lookup is answered from the cache with X-Cache: HIT, the cache is left  *)
(* as it is, and a request answered HIT has made no object-store get, no   *)
(* branding lookup, no transform call and no cache write.                  *)
C5_HitTouchesNothing ==
  /\ [](\A r \in Requests :
          resp[r].xcache = "HIT"
            => /\ resp[r].status = 200
               /\ calls[r].match = 1 /\ calls[r].get = 0 /\ calls[r].kv = <<>>
               /\ calls[r].transform = 0 /\ calls[r].put = 0
               /\ put[r] = "none")
  /\ [][\A r \in Requests :
          (MatchAnswers(r) /\ ctx[r].cacheKey \in DOMAIN cache)
            => /\ IsHit(resp'[r])
               /\ resp'[r].body = cache[ctx[r].cacheKey].body
               /\ pc'[r] = "done"
               /\ cache' = cache /\ bucket' = bucket]_vars

C5_Witness ==
  \E r \in Requests : IsHit(resp[r]) /\ calls[r].match = 1 /\ calls[r].get = 0

(* C6: a cache write is started only by a request that found the original  *)
(* and whose processing succeeded (answered 200 MISS, never 400, 404 or     *)
(* 500), and at the step that returns that response the write has been     *)
(* handed over but has not completed: the cache is unchanged.              *)
C6_CacheWriteOnlyOnSuccess ==
  /\ [](\A r \in Requests :
          (put[r] # "none" \/ calls[r].put > 0)
            => /\ IsMiss(resp[r])
               /\ calls[r].get = 1 /\ calls[r].transform = 1 /\ calls[r].put = 1)
  /\ [](\A k \in DOMAIN cache : IsMiss(resp[cache[k].writer]))
  /\ [][\A r \in Requests :
          (resp[r].status = 0 /\ resp'[r].status # 0)
            => /\ cache' = cache
               /\ IsMiss(resp'[r]) => put'[r] = "pending"
               /\ ~IsMiss(resp'[r]) => put'[r] = "none"]_vars

C6_Witness ==
  \E r \in Requests :
    /\ IsMiss(resp[r]) /\ put[r] = "pending"
    /\ ctx[r].cacheKey \notin DOMAIN cache

(* C7: every failure of the transform service (non-ok response, thrown     *)
(* error, missing capability) is answered 500 PROCESSING_ERROR, and the    *)
(* transform is requested at most once per request.                        *)
C7_TransformFailureIsProcessingError ==
  \A r \in Requests :
    /\ calls[r].transform <= 1
    /\ (pc[r] = "done" /\ calls[r].get = 1 /\ ctx[r].fullKey \in DOMAIN bucket
          /\ resp[r].status # 200)
         => resp[r].status = 500 /\ resp[r].code = "PROCESSING_ERROR"

(* C8: when the object store answers that the resolved key is absent, the  *)
(* response is 404 FILE_NOT_FOUND, its message names the key as the client *)
(* supplied it, and the transform service is not called.                   *)
C8_MissingObjectIs404 ==
  [][\A r \in Requests :
       (pc[r] = "fetch" /\ pc'[r] # "fetch" /\ ctx[r].fullKey \notin DOMAIN bucket)
         => /\ resp'[r].status = 404 /\ resp'[r].code = "FILE_NOT_FOUND"
            /\ resp'[r].message = "File '<filename>' not found"
            /\ resp'[r].filename = req[r].key
            /\ pc'[r] = "done"
            /\ calls'[r].transform = 0 /\ calls'[r].kv = <<>>]_vars

C8_Witness ==
  \E r \in Requests :
    /\ resp[r].status = 404 /\ resp[r].filename = req[r].key
    /\ calls[r].get = 1 /\ calls[r].transform = 0
    /\ ctx[r].fullKey # req[r].key

(* C9: for every resolved storage key and options, the handler's cache key *)
(* equals the cache key of the Image Processing Adapter.                   *)
C9_CacheKeysAgree ==
  \A r \in Requests :
    ctx[r].resolved
      => ctx[r].cacheKey = AdapterCreateCacheKey(ctx[r].fullKey, ctx[r].options)

(***************************************************************************)
(* Properties of the upload handler                                        *)
(***************************************************************************)
FailingNames(files, maxFileSize) ==
  { files[i].name : i \in { j \in 1..Len(files) : ~validateFile(files[j], maxFileSize).valid } }

NamedFiles(response) == { response.invalid[i].name : i \in 1..Len(response.invalid) }

(* C10: when validation finds a file of the batch invalid, the response is *)
(* 400 VALIDATION_FAILED naming every failing file, the object store is    *)
(* not written, and no object in the store ever comes from such a batch.   *)
C10_InvalidBatchRejectedWhole ==
  /\ [][\A u \in Uploads :
          (up[u].pc = "form" /\ up'[u].pc # "form" /\ ~up[u].in.formError
             /\ FailingNames(up[u].in.files, uenv.maxFileSize) # {})
            => /\ up'[u].pc = "done"
               /\ up'[u].resp.status = 400 /\ up'[u].resp.code = "VALIDATION_FAILED"
               /\ NamedFiles(up'[u].resp) = FailingNames(up[u].in.files, uenv.maxFileSize)
               /\ bucket' = bucket]_vars
  /\ [](\A k \in DOMAIN bucket : \A u \in Uploads :
          bucket[k].by[1] = u => FailingNames(up[u].in.files, uenv.maxFileSize) = {})

C10_Witness ==
  \E u \in Uploads :
    /\ up[u].resp.status = 400 /\ Len(up[u].resp.invalid) > 0
    /\ Len(up[u].resp.invalid) < Len(up[u].in.files)
    /\ \A k \in DOMAIN bucket : bucket[k].by[1] # u

(* the names of the rejected writes and of the errors entries *)
RejectedNames(w) ==
  { w.in.files[i].name : i \in { j \in 1..Len(w.settled) : w.settled[j] = "rejected" } }

ErrorEntriesFor(response, name) ==
  Cardinality({ i \in 1..Len(response.errors) : response.errors[i].filename = name })

RejectedFilesNamed(w, name) ==
  Cardinality({ i \in 1..Len(w.settled) :
                  w.settled[i] = "rejected" /\ w.in.files[i].name = name })

Settled(w, outcome) == { i \in 1..Len(w.settled) : w.settled[i] = outcome }

(* C11: for a batch whose files all pass validation, the response returned *)
(* when the last write settles is 201 if every write succeeded and 206 if  *)
(* some succeeded and some failed; a failed write leaves the other files   *)
(* to be written and reported (the request goes on with the writes still   *)
(* pending): every file of the batch is settled, every                     *)
(* fulfilled file is in photos under its key and in the object store, and  *)
(* every failed file has exactly one errors entry carrying its name.       *)
C11_PartialSuccess ==
  /\ [](\A u \in Uploads :
          (up[u].pc = "done" /\ Len(up[u].settled) > 0) =>
            LET w == up[u]
                r == up[u].resp
            IN /\ FailingNames(w.in.files, uenv.maxFileSize) = {}
               /\ Len(w.settled) = Len(w.in.files)
               /\ Settled(w, "pending") = {}
               /\ (Settled(w, "rejected") = {}) => r.status = 201
               /\ (Settled(w, "rejected") # {} /\ Settled(w, "fulfilled") # {})
                     => r.status = 206
               /\ Len(r.photos) = Cardinality(Settled(w, "fulfilled"))
               /\ \A i \in Settled(w, "fulfilled") :
                     /\ w.keys[i] \in DOMAIN bucket
                     /\ \E j \in 1..Len(r.photos) : r.photos[j].key = w.keys[i]
               /\ Len(r.errors) = Cardinality(Settled(w, "rejected"))
               /\ \A i \in 1..Len(w.in.files) :
                     ErrorEntriesFor(r, w.in.files[i].name) =
                       RejectedFilesNamed(w, w.in.files[i].name))
  /\ [][\A u \in Uploads : \A i \in 1..Len(up[u].settled) :
          (up[u].pc = "writing" /\ up[u].settled[i] = "pending"
             /\ up'[u].settled[i] = "rejected")
            => /\ \A j \in 1..Len(up[u].settled) :
                    j # i => up'[u].settled[j] = up[u].settled[j]
               /\ Settled(up'[u], "pending") # {} => up'[u].pc = "writing"
               /\ up'[u].keys = up[u].keys]_vars

C11_Witness ==
  \E u \in Uploads :
    /\ up[u].pc = "done" /\ up[u].resp.status = 206
    /\ Len(up[u].settled) = 3
    /\ up[u].settled[1] = "fulfilled" /\ up[u].settled[2] = "rejected"
    /\ up[u].settled[3] = "fulfilled"
    /\ Len(up[u].resp.photos) = 2 /\ Len(up[u].resp.errors) = 1
    /\ up[u].resp.errors[1].filename = F_PNG.name

(* the client's window entry is live and its count has reached the cap *)
LimitReached(headers) ==
  LET ip == IF headers.ip = "absent" THEN "unknown" ELSE headers.ip
  IN IF ip \in DOMAIN uploadCounts /\ uploadCounts[ip].resetTime >= now
       THEN uploadCounts[ip].count >= uenv.rateLimit
       ELSE 0 >= uenv.rateLimit

PassesAuthentication(headers) ==
  \/ uenv.environment = "production" /\ headers.jwt
  \/ uenv.environment = "development" /\ headers.token = "dev-upload-token"
  \/ uenv.environment \notin {"production", "development"}

IsUploadError(response, status, code) ==
  response.status = status /\ response.code = code

(* C12: the upload handler answers with the first check that fails, in the *)
(* order CORS preflight (204), storage capability (503), rate limit (429), *)
(* authentication (401), empty file list (400), validation (400); the      *)
(* object store is written only by a request that has passed all of them.  *)
C12_CheckOrder ==
  /\ [][\A u \in Uploads :
          (up[u].pc = "idle" /\ up'[u].pc # "idle") =>
            LET in == up'[u].in
                r == up'[u].resp
            IN IF in.method = "OPTIONS" THEN up'[u].pc = "done" /\ r.status = 204
               ELSE IF ~env.bucket
                 THEN up'[u].pc = "done" /\ IsUploadError(r, 503, "STORAGE_ERROR")
               ELSE IF LimitReached(in.headers)
                 THEN up'[u].pc = "done" /\ IsUploadError(r, 429, "RATE_LIMITED")
               ELSE IF ~PassesAuthentication(in.headers)
                 THEN up'[u].pc = "done" /\ IsUploadError(r, 401, "UNAUTHORIZED")
               ELSE up'[u].pc = "form"]_vars
  /\ [][\A u \in Uploads :
          (up[u].pc = "form" /\ up'[u].pc # "form" /\ ~up[u].in.formError) =>
            LET in == up[u].in
                r == up'[u].resp
            IN IF Len(in.files) = 0
                 THEN /\ up'[u].pc = "done" /\ IsUploadError(r, 400, "VALIDATION_FAILED")
                      /\ r.message = "No files provided"
               ELSE IF FailingNames(in.files, uenv.maxFileSize) # {}
                 THEN /\ up'[u].pc = "done" /\ IsUploadError(r, 400, "VALIDATION_FAILED")
                      /\ r.message = "Invalid files"
               ELSE up'[u].pc = "writing"]_vars
  /\ [][\A u \in Uploads :
          /\ (up'[u].pc = "form" /\ up[u].pc # "form") => up[u].pc = "idle"
          /\ (up'[u].pc = "writing" /\ up[u].pc # "writing") => up[u].pc = "form"
          /\ (\E k \in DOMAIN bucket' :
                 bucket'[k].by[1] = u /\ (k \notin DOMAIN bucket \/ bucket[k] # bucket'[k]))
               => up[u].pc = "writing"]_vars

C12_Witness ==
  \E u, v \in Uploads :
    /\ IsUploadError(up[u].resp, 429, "RATE_LIMITED")
    /\ up[u].in.headers.token = "wrong-token" /\ uenv.environment = "development"
    /\ up[v].pc = "done" /\ up[v].resp.status = 201
    /\ \E k \in DOMAIN bucket : bucket[k].by[1] = v

ClientIP(headers) == IF headers.ip = "absent" THEN "unknown" ELSE headers.ip

(* the requests from this client that have passed the rate-limit check in  *)
(* the window that contains the present instant                            *)
PassedInWindow(ip) ==
  IF ip \in DOMAIN uploadCounts /\ uploadCounts[ip].resetTime >= now
    THEN uploadCounts[ip].count ELSE 0

(* the invocation reaches the rate-limit check in this step *)
ReachesRateLimit(u) ==
  /\ up[u].pc = "idle" /\ up'[u].pc # "idle"
  /\ up'[u].in.method = "POST" /\ env.bucket

(* C13: of the requests of one client IP inside one window, exactly the    *)
(* first N (the cap) pass the rate-limit check: a request passes and is    *)
(* counted while fewer than N have passed, and every later request in the  *)
(* window is answered 429 RATE_LIMITED with a Retry-After header.          *)
C13_RateLimit ==
  /\ [][\A u \in Uploads :
          ReachesRateLimit(u) =>
            LET ip == ClientIP(up'[u].in.headers)
                r == up'[u].resp
            IN IF PassedInWindow(ip) < uenv.rateLimit
                 THEN /\ r.status # 429
                      /\ uploadCounts'[ip].count = PassedInWindow(ip) + 1
                      /\ uploadCounts'[ip].resetTime >= now
                 ELSE /\ up'[u].pc = "done"
                      /\ IsUploadError(r, 429, "RATE_LIMITED")
                      /\ r.retryAfter > 0
                      /\ uploadCounts' = uploadCounts]_vars
  /\ [][uploadCounts' # uploadCounts => \E u \in Uploads : ReachesRateLimit(u)]_vars
  /\ [](\A ip \in DOMAIN uploadCounts : uploadCounts[ip].count <= uenv.rateLimit)

(* what the claim requires of a request before it gets past authentication *)
Authorized(headers) ==
  IF uenv.environment = "production" THEN headers.jwt
  ELSE headers.token = "dev-upload-token"

(* the invocation reaches the authentication check in this step *)
ReachesAuthentication(u) ==
  /\ ReachesRateLimit(u)
  /\ ~LimitReached(up'[u].in.headers)

(* C14: a request gets past authentication only if, in production mode,    *)
(* the access-assertion header is present and, in every other mode, the    *)
(* X-Upload-Token header matches; any other request that reaches the check *)
(* is answered 401 UNAUTHORIZED and writes nothing to the object store.    *)
C14_Authentication ==
  /\ [][\A u \in Uploads :
          ReachesAuthentication(u) =>
            IF Authorized(up'[u].in.headers)
              THEN up'[u].pc = "form"
              ELSE /\ up'[u].pc = "done"
                   /\ IsUploadError(up'[u].resp, 401, "UNAUTHORIZED")
                   /\ bucket' = bucket]_vars
  /\ [](\A k \in DOMAIN bucket : \A u \in Uploads :
          bucket[k].by[1] = u => Authorized(up[u].in.headers))

(* the files for which uploadFile has generated a storage key *)
StartedWrites == { <<u, i>> : u \in Uploads, i \in 1..MaxBatch } \cap
                 { w \in Uploads \X (1..MaxBatch) : w[2] <= Len(up[w[1]].keys) }

(* C15: no two files, of one batch or of concurrent requests, get the same *)
(* storage key, and no write replaces an object another upload stored.     *)
C15_DistinctKeys ==
  /\ [](\A a, b \in StartedWrites :
          a # b => up[a[1]].keys[a[2]] # up[b[1]].keys[b[2]])
  /\ [][\A k \in DOMAIN bucket : k \in DOMAIN bucket' /\ bucket'[k] = bucket[k]]_vars

(***************************************************************************)
(* Properties of the listing handler                                       *)
(***************************************************************************)
(* C16: the limit handed to the object store's list call is 50 when the    *)
(* limit parameter is absent and is never greater than 100, whatever the   *)
(* limit parameter is.                                                     *)
C16_ListLimit ==
  lst.called =>
    /\ ~JsGt(lst.limit, 100)
    /\ ~lst.limitParam.present => lst.limit = Num(50)
    /\ Len(lst.returned) <= 100

C16_Witness ==
  /\ lst.called /\ lst.status = 200
  /\ lst.limitParam = Param(<<"2","0","0">>)
  /\ lst.limit = Num(100)

PhotoKeys(photos) == { photos[i].key : i \in 1..Len(photos) }

(* a comes no later than b in the requested order *)
InOrder(a, b, sortParam) ==
  IF sortParam = "oldest" THEN bucket[a.key].uploaded <= bucket[b.key].uploaded
  ELSE IF sortParam = "name" THEN localeCompare(a.filename, b.filename) <= 0
  ELSE IF sortParam = "size" THEN bucket[a.key].size >= bucket[b.key].size
  ELSE bucket[a.key].uploaded >= bucket[b.key].uploaded

(* C17: the photos of a listing response are the objects the store         *)
(* returned for the page, each once, in the requested order: newest first  *)
(* (also for an absent or unknown sort), oldest first, by filename         *)
(* ascending, or largest first.                                            *)
C17_SortedPermutation ==
  (lst.called /\ lst.status = 200) =>
    /\ Len(lst.photos) = Len(lst.returned)
    /\ PhotoKeys(lst.photos) = { lst.returned[i] : i \in 1..Len(lst.returned) }
    /\ \A i \in 1..Len(lst.photos) :
          lst.photos[i] = PhotoOf(lst.photos[i].key, bucket[lst.photos[i].key])
    /\ \A i, j \in 1..Len(lst.photos) :
          i < j => InOrder(lst.photos[i], lst.photos[j], lst.sortParam)

C17_Witness ==
  /\ lst.called /\ lst.status = 200 /\ lst.sortParam = "name"
  /\ Len(lst.photos) = 4
  /\ lst.returned[1] = LIST_KEY_4
  /\ lst.photos[1].filename = <<"3","-","c",".","j","p","g">>
  /\ lst.photos[2].filename = APPLE.originalName
  /\ lst.photos[3].filename = APPLE_UPPER.originalName
  /\ lst.photos[4].filename = ZEBRA.originalName

(***************************************************************************)
(* Properties of the watermark step                                        *)
(***************************************************************************)
FirstLogoFails(o) == o.kv1 = "throw" \/ (o.kv1 = "found" /\ o.draw1 = "throw")

SecondLogoFails(o) == o.kv2 = "throw" \/ (o.kv2 = "found" /\ o.draw2 = "throw")

WatermarkFailure(o) == FirstLogoFails(o) \/ SecondLogoFails(o)

TopLeft == [asset |-> BBFF_LOGO, anchor |-> "top-left"]

BottomRight == [asset |-> HMB_LOGO, anchor |-> "bottom-right"]

(* one overlay for each asset that was found *)
OverlaysOfFound(o) ==
  (IF o.kv1 = "found" THEN <<TopLeft>> ELSE <<>>) \o
  (IF o.kv2 = "found" THEN <<BottomRight>> ELSE <<>>)

(* the overlays composited before the first failure of the watermark step *)
OverlaysBeforeFailure(o) ==
  IF FirstLogoFails(o) THEN <<>>
  ELSE IF o.kv1 = "found" THEN <<TopLeft>> ELSE <<>>

(* C18: when processImage runs with watermark enabled and a branding store *)
(* and no lookup or overlay call fails, bbff-logo.png and then             *)
(* hmb-logo.png are looked up and the image carries one overlay for each   *)
(* asset found, the first top-left and the second bottom-right; a missing  *)
(* asset adds no overlay and no error. With watermark=false the branding   *)
(* store is not read and the image carries no overlay.                     *)
C18_Watermarks ==
  [][\A r \in Requests :
       (pc[r] = "process" /\ pc'[r] = "done" /\ env.images) =>
       \A o \in ProcessOutcomes :
       Process(r, o) =>
         /\ ~ctx[r].options.watermark =>
               /\ calls'[r].kv = <<>>
               /\ resp'[r].status = 200 => resp'[r].body.wm = <<>>
         /\ (ctx[r].options.watermark /\ env.branding /\ ~WatermarkFailure(o)) =>
               /\ calls'[r].kv = <<BBFF_LOGO, HMB_LOGO>>
               /\ o.xform = "ok" =>
                     /\ resp'[r].status = 200
                     /\ resp'[r].body.wm = OverlaysOfFound(o)]_vars

C18_Witness ==
  \E r \in Requests :
    /\ IsMiss(resp[r])
    /\ calls[r].kv = <<BBFF_LOGO, HMB_LOGO>>
    /\ resp[r].body.wm = <<BottomRight>>

(* C19: when a lookup or an overlay call of the watermark step fails, the  *)
(* transform is still requested, with the overlays composited before the   *)
(* failure, and the request is answered as the transform's outcome alone   *)
(* decides: 200 with that image and the cache write handed over when it    *)
(* succeeds.                                                               *)
C19_WatermarkFailureTolerated ==
  [][\A r \in Requests :
       (pc[r] = "process" /\ pc'[r] = "done" /\ env.images /\ env.branding
          /\ ctx[r].options.watermark) =>
       \A o \in ProcessOutcomes :
       (WatermarkFailure(o) /\ Process(r, o)) =>
         /\ calls'[r].transform = calls[r].transform + 1
         /\ o.xform = "ok" =>
               /\ IsMiss(resp'[r])
               /\ resp'[r].body = TransformRequest(ctx[r].fullKey, ctx[r].options,
                                                   OverlaysBeforeFailure(o))
               /\ put'[r] = "pending"
         /\ o.xform = "notok" =>
               resp'[r].status = 500 /\ resp'[r].code = "PROCESSING_ERROR"
         /\ o.xform = "throw" =>
               resp'[r].status = 500 /\ resp'[r].code = "INTERNAL_ERROR"]_vars

C19_Witness ==
  \E r \in Requests :
    /\ IsMiss(resp[r])
    /\ calls[r].kv = <<BBFF_LOGO>>
    /\ resp[r].body.wm = <<>>
    /\ put[r] \in {"pending", "done"}

(***************************************************************************)
(* Properties of optimizeForWeb                                            *)
(***************************************************************************)
QualityLadder == <<95, 85, 75, 65, 55, 45, 35, 25, 20>>

IsPrefix(s, t) == Len(s) <= Len(t) /\ \A i \in 1..Len(s) : s[i] = t[i]

(* C20: optimizeForWeb requests the image at qualities 95, 85, ..., 25, 20 *)
(* in that order and at most 9 times; it goes on only while the last       *)
(* result is over the target and the quality is above 20, and it returns   *)
(* the last result obtained, the quality-20 one also when that is still    *)
(* over the target.                                                        *)
C20_QualityLadder ==
  /\ [](/\ IsPrefix(opt.requests, QualityLadder)
        /\ Len(opt.requests) <= 9
        /\ opt.pc \in {"loop", "done"} =>
              /\ Len(opt.requests) >= 1
              /\ opt.result.quality = opt.requests[Len(opt.requests)]
        /\ opt.pc = "done" =>
              \/ WithinTarget(opt.result, opt.target)
              \/ opt.result.quality = 20)
  /\ [][opt.pc = "loop" =>
          IF WithinTarget(opt.result, opt.target) \/ opt.result.quality = 20
            THEN opt'.pc = "done" /\ opt'.result = opt.result
                 /\ opt'.requests = opt.requests
            ELSE /\ opt'.pc \in {"loop", "threw"}
                 /\ Len(opt'.requests) = Len(opt.requests) + 1]_vars

C20_Witness ==
  /\ opt.pc = "done"
  /\ opt.requests = QualityLadder
  /\ opt.result.quality = 20
  /\ ~WithinTarget(opt.result, opt.target)

(***************************************************************************)
(* Properties of the image HEAD handler                                    *)
(***************************************************************************)
(* C21: a HEAD invocation makes at most one object-store head probe and no *)
(* object-store get, no cache match or put, no branding lookup and no      *)
(* transform call; the step leaves the object store, the cache, the        *)
(* deferred cache writes and the GET invocations as they were.             *)
C21_HeadIsSideEffectFree ==
  /\ [](head.probes <= 1 /\ head.calls = NoCalls)
  /\ [][head' # head =>
          /\ bucket' = bucket
          /\ cache' = cache
          /\ put' = put
          /\ calls' = calls
          /\ pc' = pc /\ resp' = resp]_vars

C21_Witness ==
  /\ head.used /\ head.status = 200 /\ head.probes = 1
  /\ \E r \in Requests : put[r] = "done" /\ ctx[r].fullKey = head.fullKey

(***************************************************************************)
(* Properties of the endpoints                                             *)
(***************************************************************************)
(* the methods an endpoint serves: its pipelines and the preflight *)
Supported(endpoint) == Pipelines(endpoint) \cup {"OPTIONS"}

(* C22: each of the three endpoints answers an OPTIONS request with a 204  *)
(* preflight response and a request with a method it does not support      *)
(* with 405 METHOD_NOT_ALLOWED.                                            *)
C22_PreflightAndMethodNotAllowed ==
  route.endpoint \in Endpoints =>
    /\ route.method = "OPTIONS" => route.status = 204
    /\ route.method \notin Supported(route.endpoint) =>
         route.status = 405 /\ route.code = "METHOD_NOT_ALLOWED"

(***************************************************************************)
(* Properties of file validation                                           *)
(***************************************************************************)
(* the bytes of sig stand in content from the 0-based offset on *)
MatchesAt(content, offset, sig) ==
  /\ Len(content) >= offset + Len(sig)
  /\ SubSeq(content, offset + 1, offset + Len(sig)) = sig

HasImageSignature(content) ==
  \/ MatchesAt(content, 0, <<255, 216, 255>>)
  \/ MatchesAt(content, 0, <<137, 80, 78, 71, 13, 10, 26, 10>>)
  \/ MatchesAt(content, 0, <<82, 73, 70, 70>>) /\ MatchesAt(content, 8, <<87, 69, 66, 80>>)

(* the error of the first check the file fails, in the order size, type,   *)
(* magic bytes; a failed read counts as a failed magic-byte check          *)
FirstFailure(file, maxFileSize) ==
  IF file.size > maxFileSize THEN "File size exceeds maximum allowed size"
  ELSE IF file.type \notin {"image/jpeg", "image/png", "image/webp"}
    THEN "File type is not allowed"
  ELSE IF file.ioError \/ ~HasImageSignature(file.content)
    THEN "File does not appear to be a valid image"
  ELSE "none"

RECURSIVE ExpectedInvalid(_, _)
ExpectedInvalid(files, maxFileSize) ==
  IF Len(files) = 0 THEN <<>>
  ELSE (IF FirstFailure(Head(files), maxFileSize) = "none" THEN <<>>
        ELSE <<[name |-> Head(files).name,
                error |-> FirstFailure(Head(files), maxFileSize)]>>)
       \o ExpectedInvalid(Tail(files), maxFileSize)

(* C23: a file is valid exactly when its size is within maxFileSize, its   *)
(* declared type is allowed and its leading bytes carry the JPEG, PNG or   *)
(* WebP signature; an invalid file is reported with the error of the first *)
(* failing check in the order size, type, magic bytes, and a failed read   *)
(* of the bytes is reported as not a valid image, never as an exception.   *)
C23_ValidateFile ==
  [][\A u \in Uploads :
       (up[u].pc = "form" /\ up'[u].pc # "form" /\ ~up[u].in.formError
          /\ Len(up[u].in.files) > 0)
         => LET expected == ExpectedInvalid(up[u].in.files, uenv.maxFileSize)
            IN IF expected = <<>>
                 THEN up'[u].pc = "writing"
                 ELSE /\ up'[u].pc = "done"
                      /\ up'[u].resp.status = 400
                      /\ up'[u].resp.invalid = expected]_vars

C23_Witness ==
  \E u \in Uploads :
    /\ up[u].resp.status = 400
    /\ Len(up[u].resp.invalid) = 1
    /\ up[u].in.files[1].ioError
    /\ up[u].in.files[1].content = JpegBytes
    /\ up[u].in.files[1].type = "image/jpeg"
    /\ up[u].in.files[1].size = DefaultMaxUploadSize
    /\ up[u].resp.invalid[1].error = "File does not appear to be a valid image"

(***************************************************************************)
(* Properties of the cache key                                             *)
(***************************************************************************)
(* the options as the transform service is given them *)
EffectiveOptions(options) ==
  [ width     |-> IF TruthyNum(options.width) THEN options.width.v ELSE 0,
    height    |-> IF TruthyNum(options.height) THEN options.height.v ELSE 0,
    quality   |-> IF TruthyNum(options.quality) THEN options.quality.v ELSE 0,
    format    |-> options.format,
    watermark |-> options.watermark ]

(* C24: two GET requests whose resolved storage keys differ, or whose      *)
(* effective width, height, quality, format or watermark differ, never get *)
(* the same cache key, and a cache HIT never returns bytes produced for    *)
(* another storage key or other options.                                   *)
C24_CacheKeyInjective ==
  /\ \A r1, r2 \in Requests :
       (/\ ctx[r1].resolved /\ ctx[r2].resolved
        /\ \/ ctx[r1].fullKey # ctx[r2].fullKey
           \/ EffectiveOptions(ctx[r1].options) # EffectiveOptions(ctx[r2].options))
         => ctx[r1].cacheKey # ctx[r2].cacheKey
  /\ \A r \in Requests :
       IsHit(resp[r]) =>
         /\ resp[r].body.src = ctx[r].fullKey
         /\ resp[r].body.width = EffectiveOptions(ctx[r].options).width
         /\ resp[r].body.height = EffectiveOptions(ctx[r].options).height
         /\ resp[r].body.quality = EffectiveOptions(ctx[r].options).quality
         /\ resp[r].body.format = ctx[r].options.format

(***************************************************************************)
(* Properties of concurrent image-serving requests                         *)
(***************************************************************************)
(* two invocations that received the same request *)
Twins(r1, r2) == r1 # r2 /\ req[r1].method = "GET" /\ req[r1] = req[r2]

(* the invocation ran the image through the pipeline itself *)
ProcessedItself(r) == calls[r].get = 1 /\ calls[r].transform = 1

(* the deployment serves the stored image: bindings present, transform ok *)
Serving == env.bucket /\ env.images /\ env.answers.xform = "ok"

AtCap(ip) == ip \in DOMAIN uploadCounts /\ uploadCounts[ip].count >= uenv.rateLimit

(* C26: the first request of a rate-limited client after the resetTime of  *)
(* its window has passed is admitted and starts a fresh window with count  *)
(* 1; a request answered 429 leaves the stored count and resetTime as they *)
(* were; the stored count never exceeds the cap.                           *)
C26_WindowReset ==
  /\ [][\A u \in Uploads :
          ReachesRateLimit(u) =>
            LET ip == ClientIP(up'[u].in.headers)
            IN /\ (AtCap(ip) /\ now > uploadCounts[ip].resetTime) =>
                    /\ up'[u].resp.status # 429
                    /\ uploadCounts'[ip] = [count |-> 1, resetTime |-> now + WindowMs]
               /\ (AtCap(ip) /\ now <= uploadCounts[ip].resetTime) =>
                    up'[u].resp.status = 429
               /\ up'[u].resp.status = 429 => uploadCounts' = uploadCounts]_vars
  /\ [](\A ip \in DOMAIN uploadCounts : uploadCounts[ip].count <= uenv.rateLimit)

(* a client was answered 429 and, after the reset time, admitted again *)
C26_Witness ==
  \E u, v \in Uploads :
    LET ip == ClientIP(up[u].in.headers)
    IN /\ u # v
       /\ up[u].resp.status = 429
       /\ ClientIP(up[v].in.headers) = ip
       /\ up[v].in.method = "POST" /\ up[v].pc = "form"
       /\ ip \in DOMAIN uploadCounts
       /\ uploadCounts[ip] = [count |-> 1, resetTime |-> now + WindowMs]
       /\ now > WindowMs

(***************************************************************************)
(* Properties of the batch size                                            *)
(***************************************************************************)
(* C27: an upload batch of more than maxFiles (10) files results in no     *)
(* object being written to the object store.                               *)
C27_OversizedBatchWritesNothing ==
  \A k \in DOMAIN bucket : \A u \in Uploads :
    bucket[k].by[1] = u => Len(up[u].in.files) <= MaxFiles

(***************************************************************************)
(* Properties of the storage keys read                                     *)
(***************************************************************************)
(* the prefix the listing handler enumerates *)
LISTING_PREFIX == EVENT_PREFIX \o SLASH

(* C28: every storage key that the image-serving GET or HEAD handler reads *)
(* from the object store lies under the listing prefix '25thAnniversary/'. *)
C28_ReadsStayInEventFolder ==
  /\ \A r \in Requests :
       calls[r].get > 0 => StartsWith(ctx[r].fullKey, LISTING_PREFIX)
  /\ head.probes > 0 => StartsWith(head.fullKey, LISTING_PREFIX)

(***************************************************************************)
(* Properties of upload followed by listing                                *)
(***************************************************************************)
(* C29: for every successfully uploaded file, the filename in the          *)
(* PhotoMetadata of the upload response equals the filename the listing    *)
(* handler later reports for the same storage key.                         *)
C29_UploadListRoundTrip ==
  \A u \in Uploads :
    (up[u].pc = "done" /\ lst.status = 200) =>
      \A i \in 1..Len(up[u].resp.photos) : \A j \in 1..Len(lst.photos) :
        up[u].resp.photos[i].key = lst.photos[j].key
          => up[u].resp.photos[i].filename = lst.photos[j].filename

(***************************************************************************)
(* Properties of paging                                                    *)
(***************************************************************************)
(* the client holds exactly the pages from the first one up to the cursor  *)
(* it was last handed, each photo once                                     *)
FollowedCursor ==
  LET held == { gallery.photos[i].key : i \in 1..Len(gallery.photos) }
  IN /\ Len(gallery.photos) = Cardinality(held)
     /\ Len(gallery.photos) > ListLimit(gallery.limit).v
     /\ held = IF gallery.cursor.present
               THEN { k \in ListedKeys(bucket) : ~KeyBefore(gallery.cursor.s, k) }
               ELSE ListedKeys(bucket)

(* C30: when a client follows the returned cursor through successive pages *)
(* with the same sort, appending each page as the gallery's Load More      *)
(* does, the photos it holds are ordered by that sort as a whole: for      *)
(* newest, uploadedAt never increases along the appended sequence.         *)
C30_AppendedPagesOrdered ==
  FollowedCursor =>
    \A i \in 1..Len(gallery.photos) - 1 :
      InOrder(gallery.photos[i], gallery.photos[i + 1], gallery.currentSort)

====
